---- MODULE Spec2Model ----
(***************************************************************************)
(* A model of the MCP tool server of llama_political_manager/mcp_server.py *)
(* (classes MCPServer and PoliticalDocumentMCPServer).                     *)
(*                                                                         *)
(* The registries are Python dicts: insertion-ordered maps.  They are      *)
(* modelled as sequences of entries with pairwise distinct keys, so that   *)
(* the listing order is part of the state.  Every operation records what   *)
(* its caller observed (arguments, returned value or raised exception, the *)
(* handlers it ran) in the variable last.                                  *)
(***************************************************************************)
EXTENDS Integers, Sequences, FiniteSets, TLC

VARIABLES
    tools,          \* self.tools: ordered map name -> {name, description, handler}
    resources,      \* self.resources: ordered map uri -> content
    is_running,     \* self.is_running
    clients,        \* self.clients
    host,           \* self.host
    port,           \* self.port
    config_manager, \* self.config_manager of PoliticalDocumentMCPServer
    tasks,          \* per caller: where the caller stands in its operation
    routes,         \* MockWebApp.routes: ordered map route key -> handler
    jobs,           \* the directory ./ingestion_jobs and its job files
    last            \* what the caller of the latest operation observed

vars == <<tools, resources, is_running, clients, host, port, config_manager,
          tasks, routes, jobs, last>>

server == <<tools, resources, is_running, clients, host, port, config_manager>>

----------------------------------------------------------------------------
(* Inputs the callers draw from.                                           *)

ToolNames == {"x", "y"}
UnknownName == "nope"
Descriptions == {"d1", "d2"}
Uris == {"u1", "u2"}
Contents == {"c1", "c2"}
Addresses == {<<"localhost", 8080>>, <<"host2", 9090>>}
NumArguments == 2
Arguments == 1 .. NumArguments

(* Optional[str]: None, or a string.                                       *)
None == [none |-> TRUE, s |-> ""]
Str(s) == [none |-> FALSE, s |-> s]

----------------------------------------------------------------------------
(* Handlers supplied by callers.  search_tool is a plain function,         *)
(* call_external_api is a coroutine function, validated_tool raises.       *)

UserHandlers == {"search_tool", "call_external_api", "validated_tool"}

(* asyncio.iscoroutinefunction(handler)                                    *)
IsCoroutineFunction(handler) == handler = "call_external_api"

(* What running the body of a handler to completion yields.                *)
Returned(v) == [kind |-> "return", value |-> v]
Raised(type, msg) == [kind |-> "raise", exc |-> [type |-> type, msg |-> msg]]

UserBody(handler, arguments) ==
    IF handler = "validated_tool"
    THEN Raised("TypeError", <<"Query must be a string">>)
    ELSE Returned(<<"result", handler, arguments>>)

(* Strings whose characters matter are spelled out: the characters of each *)
(* keyword and of each word a text is made of.                             *)
Chars(s) ==
    CASE s = "healthcare" -> <<"h", "e", "a", "l", "t", "h", "c", "a", "r", "e">>
      [] s = "health" -> <<"h", "e", "a", "l", "t", "h">>
      [] s = "medical" -> <<"m", "e", "d", "i", "c", "a", "l">>
      [] s = "insurance" -> <<"i", "n", "s", "u", "r", "a", "n", "c", "e">>
      [] s = "economic" -> <<"e", "c", "o", "n", "o", "m", "i", "c">>
      [] s = "economy" -> <<"e", "c", "o", "n", "o", "m", "y">>
      [] s = "financial" -> <<"f", "i", "n", "a", "n", "c", "i", "a", "l">>
      [] s = "budget" -> <<"b", "u", "d", "g", "e", "t">>
      [] s = "tax" -> <<"t", "a", "x">>
      [] s = "environmental" -> <<"e", "n", "v", "i", "r", "o", "n", "m", "e", "n", "t", "a", "l">>
      [] s = "climate" -> <<"c", "l", "i", "m", "a", "t", "e">>
      [] s = "green" -> <<"g", "r", "e", "e", "n">>
      [] s = "pollution" -> <<"p", "o", "l", "l", "u", "t", "i", "o", "n">>
      [] s = "education" -> <<"e", "d", "u", "c", "a", "t", "i", "o", "n">>
      [] s = "school" -> <<"s", "c", "h", "o", "o", "l">>
      [] s = "university" -> <<"u", "n", "i", "v", "e", "r", "s", "i", "t", "y">>
      [] s = "student" -> <<"s", "t", "u", "d", "e", "n", "t">>
      [] s = "Medical" -> <<"M", "e", "d", "i", "c", "a", "l">>
      [] s = "reform" -> <<"r", "e", "f", "o", "r", "m">>

(* str.lower(), character by character.                                    *)
LowerChar(c) ==
    CASE c = "A" -> "a"
      [] c = "B" -> "b"
      [] c = "C" -> "c"
      [] c = "D" -> "d"
      [] c = "E" -> "e"
      [] c = "F" -> "f"
      [] c = "G" -> "g"
      [] c = "H" -> "h"
      [] c = "I" -> "i"
      [] c = "J" -> "j"
      [] c = "K" -> "k"
      [] c = "L" -> "l"
      [] c = "M" -> "m"
      [] c = "N" -> "n"
      [] c = "O" -> "o"
      [] c = "P" -> "p"
      [] c = "Q" -> "q"
      [] c = "R" -> "r"
      [] c = "S" -> "s"
      [] c = "T" -> "t"
      [] c = "U" -> "u"
      [] c = "V" -> "v"
      [] c = "W" -> "w"
      [] c = "X" -> "x"
      [] c = "Y" -> "y"
      [] c = "Z" -> "z"
      [] OTHER -> c

Lower(cs) == [i \in DOMAIN cs |-> LowerChar(cs[i])]

(* A text is given by its words; its characters are those of the words     *)
(* joined by single spaces.                                                *)
RECURSIVE TextChars(_)
TextChars(words) ==
    IF words = <<>> THEN <<>>
    ELSE IF Len(words) = 1 THEN Chars(words[1])
    ELSE Chars(words[1]) \o <<" ">> \o TextChars(Tail(words))

(* kw in text: kw occurs in text as a substring.                           *)
Contains(text, kw) ==
    \E i \in 0 .. (Len(text) - Len(kw)) :
        \A j \in 1 .. Len(kw) : text[i + j] = kw[j]

policy_areas ==
    << [area |-> "healthcare",
        keywords |-> <<"healthcare", "health", "medical", "insurance">>],
       [area |-> "economy",
        keywords |-> <<"economic", "economy", "financial", "budget", "tax">>],
       [area |-> "environment",
        keywords |-> <<"environmental", "climate", "green", "pollution">>],
       [area |-> "education",
        keywords |-> <<"education", "school", "university", "student">>] >>

RECURSIVE SumSeq(_)
SumSeq(ns) == IF ns = <<>> THEN 0 ELSE Head(ns) + SumSeq(Tail(ns))

(* sum(1 for kw in keywords if kw in text_lower)                           *)
Mentions(keywords, text_lower) ==
    SumSeq([i \in DOMAIN keywords |->
               IF Contains(text_lower, Chars(keywords[i])) THEN 1 ELSE 0])

(* Mutant: an area is already of high relevance with two mentions.         *)
RelevanceHighFromTwo(mentions) ==
    IF mentions > 1 THEN "high" ELSE IF mentions > 0 THEN "medium" ELSE "low"

Relevance(mentions) ==
    IF mentions > 2 THEN "high" ELSE IF mentions > 0 THEN "medium" ELSE "low"

(* The file system the indexing tool looks at: a path names a file with    *)
(* its characters, a directory, or nothing.                                *)
Paths == {"a.txt", "b.txt", "empty.txt", "docs", "missing.txt"}

FileSystem(path) ==
    CASE path = "a.txt" ->
             [kind |-> "file", content |-> TextChars(<<"tax", "reform", "healthcare">>)]
      [] path = "b.txt" ->
             [kind |-> "file",
              content |-> Chars("tax") \o <<" ", " ">> \o Chars("Medical") \o <<"\n">>]
      [] path = "empty.txt" -> [kind |-> "file", content |-> <<>>]
      [] path = "docs" -> [kind |-> "dir", content |-> <<>>]
      [] OTHER -> [kind |-> "none", content |-> <<>>]

(* Path(path).exists(): true of files and of directories.                  *)
Exists(path) == FileSystem(path).kind # "none"

Whitespace == {" ", "\n", "\t"}

(* content.split(): the maximal runs of characters that are not whitespace.*)
RECURSIVE SplitFrom(_, _, _)
SplitFrom(chars, word, words) ==
    IF chars = <<>>
    THEN IF word = <<>> THEN words ELSE Append(words, word)
    ELSE IF Head(chars) \in Whitespace
    THEN SplitFrom(Tail(chars), <<>>, IF word = <<>> THEN words ELSE Append(words, word))
    ELSE SplitFrom(Tail(chars), Append(word, Head(chars)), words)

Split(chars) == SplitFrom(chars, <<>>, <<>>)

(* len([w for w in content.split() if len(w) > 3])                         *)
Keywords(content) == Len(SelectSeq(Split(content), LAMBDA w : Len(w) > 3))

(* One entry of results, for a path that read_text could read or that does *)
(* not exist.                                                              *)
IndexEntry(path) ==
    IF Exists(path)
    THEN [path |-> path, indexed |-> TRUE,
          content_length |-> Len(FileSystem(path).content),
          keywords |-> Keywords(FileSystem(path).content)]
    ELSE [path |-> path, indexed |-> FALSE, error |-> "File not found"]

(* index_documents(document_paths): read_text() of a directory raises, and *)
(* the loop has no handler for it.                                         *)
IndexDocuments(arguments) ==
    LET paths == arguments.document_paths
        dirs == {i \in DOMAIN paths : FileSystem(paths[i]).kind = "dir"}
    IN  IF dirs # {}
        THEN Raised("IsADirectoryError",
                    <<paths[CHOOSE i \in dirs : \A j \in dirs : i <= j]>>)
        ELSE LET results == [i \in DOMAIN paths |-> IndexEntry(paths[i])]
             IN  Returned([documents |-> results,
                           total_indexed |->
                               Cardinality({i \in DOMAIN results : results[i].indexed})])

(* analyze_political_content(text)                                         *)
AnalyzePoliticalContent(arguments) ==
    LET text_lower == Lower(TextChars(arguments.text))
        analysis ==
            [i \in DOMAIN policy_areas |->
                LET mentions == Mentions(policy_areas[i].keywords, text_lower)
                IN  [key |-> policy_areas[i].area,
                     val |-> [mentions |-> mentions,
                              relevance |-> Relevance(mentions)]]]
        high == SelectSeq(analysis, LAMBDA e : e.val.relevance = "high")
    IN  Returned([analysis |-> analysis,
                  total_policy_mentions |->
                      SumSeq([i \in DOMAIN analysis |-> analysis[i].val.mentions]),
                  primary_topics |-> [i \in DOMAIN high |-> high[i].key]])

(* Mutant: a database type that is not known is served as SQL.             *)
QueryDatabaseFallsBack(arguments) ==
    LET database_type == IF "database_type" \in DOMAIN arguments
                         THEN arguments.database_type ELSE "sql"
    IN  IF database_type = "neo4j"
        THEN Returned([query |-> arguments.query, results |-> "neo4j rows",
                       count |-> 2, database_type |-> "neo4j"])
        ELSE Returned([query |-> arguments.query, results |-> "sql rows",
                       count |-> 2, database_type |-> "sql"])

(* query_database(query, database_type="sql")                               *)
QueryDatabase(arguments) ==
    LET database_type == IF "database_type" \in DOMAIN arguments
                         THEN arguments.database_type ELSE "sql"
    IN  IF database_type = "sql"
        THEN Returned([query |-> arguments.query, results |-> "sql rows",
                       count |-> 2, database_type |-> "sql"])
        ELSE IF database_type = "neo4j"
        THEN Returned([query |-> arguments.query, results |-> "neo4j rows",
                       count |-> 2, database_type |-> "neo4j"])
        ELSE Raised("ValueError", <<"Unsupported database type", database_type>>)

(* The ordered maps.                                                       *)

Has(d, k) == \E i \in DOMAIN d : d[i].key = k
IndexOf(d, k) == CHOOSE i \in DOMAIN d : d[i].key = k
Get(d, k) == d[IndexOf(d, k)].val

(* d[k] = v: replaces the value in place, or appends a new key.            *)
SetItem(d, k, v) ==
    IF Has(d, k)
    THEN [d EXCEPT ![IndexOf(d, k)] = [key |-> k, val |-> v]]
    ELSE Append(d, [key |-> k, val |-> v])

(* A configuration value: a dict (insertion-ordered items) or anything     *)
(* else, which the manager never looks into.                               *)
Dict(items) == [dict |-> TRUE, items |-> items, v |-> ""]
Scalar(v) == [dict |-> FALSE, items |-> <<>>, v |-> v]
Item(k, x) == [key |-> k, val |-> x]

(* _get_default_config(config_name)                                        *)
GetDefaultConfig(config_name) ==
    CASE config_name = "database" ->
             Dict(<< Item("sql_database",
                          Dict(<< Item("type", Scalar("sqlite")),
                                  Item("database", Scalar("app.db")),
                                  Item("host", Scalar("localhost")),
                                  Item("port", Scalar("5432")),
                                  Item("username", Scalar("")),
                                  Item("password", Scalar("")) >>)),
                     Item("neo4j_database",
                          Dict(<< Item("uri", Scalar("bolt://localhost:7687")),
                                  Item("username", Scalar("neo4j")),
                                  Item("password", Scalar("")) >>)),
                     Item("vector_store",
                          Dict(<< Item("type", Scalar("chroma")),
                                  Item("persist_directory", Scalar("./chroma_db")) >>)) >>)
      [] config_name = "deployment" ->
             Dict(<< Item("environment", Scalar("development")),
                     Item("debug", Scalar("True")),
                     Item("log_level", Scalar("INFO")),
                     Item("host", Scalar("localhost")),
                     Item("port", Scalar("8000")),
                     Item("worker_processes", Scalar("1")),
                     Item("max_workers", Scalar("4")),
                     Item("timeout", Scalar("30")) >>)
      [] config_name = "document_sources" ->
             Dict(<< Item("political_documents",
                          Dict(<< Item("enabled", Scalar("True")),
                                  Item("sources", Scalar("[directory, api]")),
                                  Item("update_frequency", Scalar("daily")),
                                  Item("filters",
                                       Scalar("[government, policy, legislation]")) >>)) >>)
      [] config_name = "web_interface" ->
             Dict(<< Item("enabled", Scalar("True")),
                     Item("theme", Scalar("default")),
                     Item("title", Scalar("LlamaIndex Political Document Manager")),
                     Item("features",
                          Dict(<< Item("document_upload", Scalar("True")),
                                  Item("search", Scalar("True")),
                                  Item("analytics", Scalar("True")),
                                  Item("configuration", Scalar("True")) >>)) >>)
      [] OTHER -> Dict(<<>>)

(* A file of the configuration directory holds a document in a format.     *)
Dump(format, config) == [format |-> format, doc |-> config]
Parse(format, content) ==
    IF content.format = format THEN content.doc ELSE Scalar("parse error")

(* No configuration manager, and a manager over a configuration directory. *)
NoManager == [present |-> FALSE, config_cache |-> <<>>, config_dir |-> <<>>]
Manager(files) == [present |-> TRUE, config_cache |-> <<>>, config_dir |-> files]

(* load_config(config_name): the configuration and the manager afterwards. *)
LoadConfig(cm, config_name) ==
    IF Has(cm.config_cache, config_name)
    THEN [config |-> Get(cm.config_cache, config_name), cm |-> cm]
    ELSE LET config ==
                 IF Has(cm.config_dir, <<config_name, "json">>)
                 THEN Parse("json", Get(cm.config_dir, <<config_name, "json">>))
                 ELSE IF Has(cm.config_dir, <<config_name, "yaml">>)
                 THEN Parse("yaml", Get(cm.config_dir, <<config_name, "yaml">>))
                 ELSE GetDefaultConfig(config_name)
         IN  [config |-> config,
              cm |-> [cm EXCEPT !.config_cache = SetItem(@, config_name, config)]]

(* Mutant: the file is written and the cache is left as it was.            *)
SaveConfigFileOnly(cm, config_name, config, format) ==
    [cm EXCEPT !.config_dir = SetItem(@, <<config_name, format>>, Dump(format, config))]

(* save_config(config_name, config, format), for the formats json and yaml.*)
SaveConfig(cm, config_name, config, format) ==
    [cm EXCEPT !.config_dir = SetItem(@, <<config_name, format>>, Dump(format, config)),
               !.config_cache = SetItem(@, config_name, config)]

(* Mutant: dict.update, which overwrites a nested dict as a whole.         *)
RECURSIVE ShallowUpdate(_, _)
ShallowUpdate(base, update) ==
    IF update = <<>> THEN base
    ELSE ShallowUpdate(SetItem(base, Head(update).key, Head(update).val), Tail(update))

(* deep_update(base_dict, update_dict), on the items of the two dicts.     *)
RECURSIVE DeepUpdate(_, _)
DeepUpdate(base, update) ==
    IF update = <<>> THEN base
    ELSE LET key == Head(update).key
             value == Head(update).val
             merged ==
                 IF /\ Has(base, key)
                    /\ Get(base, key).dict
                    /\ value.dict
                 THEN SetItem(base, key, Dict(DeepUpdate(Get(base, key).items,
                                                        value.items)))
                 ELSE SetItem(base, key, value)
         IN  DeepUpdate(merged, Tail(update))

(* Mutant: the update is applied to a copy that is handed back, and        *)
(* neither cached nor saved.                                               *)
UpdateConfigDetached(cm, config_name, updates) ==
    LET loaded == LoadConfig(cm, config_name)
    IN  [config |-> Dict(DeepUpdate(loaded.config.items, updates.items)),
         cm |-> loaded.cm]

(* update_config(config_name, updates)                                     *)
UpdateConfig(cm, config_name, updates) ==
    LET loaded == LoadConfig(cm, config_name)
        config == Dict(DeepUpdate(loaded.config.items, updates.items))
    IN  [config |-> config,
         cm |-> SaveConfig(loaded.cm, config_name, config, "json")]

(* get_configuration(config_type)                                          *)
GetConfiguration(cm, arguments) ==
    IF ~cm.present
    THEN Raised("RuntimeError", <<"Configuration manager not available">>)
    ELSE Returned(LoadConfig(cm, arguments.config_type).config)

(* update_configuration(config_type, updates)                              *)
UpdateConfiguration(cm, arguments) ==
    IF ~cm.present
    THEN Raised("RuntimeError", <<"Configuration manager not available">>)
    ELSE Returned([config_type |-> arguments.config_type,
                   updates_applied |-> arguments.updates,
                   status |-> "updated",
                   updated_config |->
                       UpdateConfig(cm, arguments.config_type, arguments.updates).config])

(* The parameters of each handler: all of them, and those with no default. *)
Parameters(handler) ==
    CASE handler = "query_database" -> {"query", "database_type"}
      [] handler = "index_documents" -> {"document_paths"}
      [] handler = "analyze_political_content" -> {"text"}
      [] handler = "get_configuration" -> {"config_type"}
      [] handler = "update_configuration" -> {"config_type", "updates"}

Required(handler) ==
    CASE handler = "query_database" -> {"query"}
      [] handler = "index_documents" -> {"document_paths"}
      [] handler = "analyze_political_content" -> {"text"}
      [] handler = "get_configuration" -> {"config_type"}
      [] handler = "update_configuration" -> {"config_type", "updates"}

(* Whether the keyword arguments fit the handler's signature.  The caller- *)
(* supplied handlers are called with arguments that fit theirs.            *)
Binds(handler, arguments) ==
    IF handler \in UserHandlers THEN TRUE
    ELSE /\ DOMAIN arguments \subseteq Parameters(handler)
         /\ Required(handler) \subseteq DOMAIN arguments

Body(cm, handler, arguments) ==
    CASE handler \in UserHandlers -> UserBody(handler, arguments)
      [] handler = "query_database" -> QueryDatabase(arguments)
      [] handler = "index_documents" -> IndexDocuments(arguments)
      [] handler = "analyze_political_content" -> AnalyzePoliticalContent(arguments)
      [] handler = "get_configuration" -> GetConfiguration(cm, arguments)
      [] handler = "update_configuration" -> UpdateConfiguration(cm, arguments)

(* The configuration manager as the handler's body leaves it.              *)
BodyManager(cm, handler, arguments) ==
    IF ~cm.present THEN cm
    ELSE CASE handler = "get_configuration" ->
                  LoadConfig(cm, arguments.config_type).cm
           [] handler = "update_configuration" ->
                  UpdateConfig(cm, arguments.config_type, arguments.updates).cm
           [] OTHER -> cm

(* Calling the handler with the keyword arguments: a plain function runs   *)
(* its body; a coroutine function runs nothing and hands back a coroutine  *)
(* object.                                                                 *)
Call(cm, handler, arguments) ==
    IF ~Binds(handler, arguments)
    THEN Raised("TypeError", <<"arguments do not fit the signature">>)
    ELSE IF IsCoroutineFunction(handler)
    THEN Returned(<<"coroutine", handler, arguments>>)
    ELSE Body(cm, handler, arguments)

(* await coro: runs the coroutine's body to completion.                    *)
Await(cm, called) ==
    IF called.kind = "raise" THEN called
    ELSE Body(cm, called.value[2], called.value[3])

----------------------------------------------------------------------------
(* MCPServer                                                               *)

(* Mutant: the first registration of a name wins (setdefault).             *)
RegisterToolFirstWins(t, name, description, handler) ==
    IF Has(t, name) THEN t
    ELSE Append(t, [key |-> name,
                    val |-> [name |-> name, description |-> description,
                             handler |-> handler]])

(* Mutant: registering a name again moves its entry to the end.            *)
RegisterToolMovesToEnd(t, name, description, handler) ==
    Append(SelectSeq(t, LAMBDA e : e.key # name),
           [key |-> name,
            val |-> [name |-> name, description |-> description, handler |-> handler]])

(* Mutant: the map holds only the latest registration.                     *)
RegisterToolKeepsOne(t, name, description, handler) ==
    <<[key |-> name,
       val |-> [name |-> name, description |-> description, handler |-> handler]]>>

RegisterToolMap(t, name, description, handler) ==
    SetItem(t, name, [name |-> name, description |-> description, handler |-> handler])

(* Mutant: the resources are kept as a list that grows on every call.      *)
RegisterResourceAppends(r, uri, content) == Append(r, [key |-> uri, val |-> content])

RegisterResourceMap(r, uri, content) == SetItem(r, uri, content)

ListTools(t) ==
    [i \in DOMAIN t |-> [name |-> t[i].val.name, description |-> t[i].val.description]]

ListResources(r) == [i \in DOMAIN r |-> r[i].key]

(* Mutant: an unknown name is a silent no-op returning None.               *)
HandleToolCallSilent(t, cm, tool_name, arguments) ==
    IF ~Has(t, tool_name)
    THEN [kind |-> "return", value |-> "None", invoked |-> <<>>]
    ELSE LET handler == Get(t, tool_name).handler
             called == Call(cm, handler, arguments)
             done == IF IsCoroutineFunction(handler) THEN Await(cm, called) ELSE called
         IN  IF done.kind = "return"
             THEN [kind |-> "return", value |-> done.value, invoked |-> <<handler>>]
             ELSE [kind |-> "raise", exc |-> done.exc, invoked |-> <<handler>>]

(* Mutant: the handler is called the same way whether or not it is a       *)
(* coroutine function, so a coroutine is handed back without being awaited.*)
HandleToolCallNoAwait(t, cm, tool_name, arguments) ==
    IF ~Has(t, tool_name)
    THEN [kind |-> "raise",
          exc |-> [type |-> "ValueError", msg |-> <<"Tool", tool_name, "not found">>],
          invoked |-> <<>>]
    ELSE LET handler == Get(t, tool_name).handler
             done == Call(cm, handler, arguments)
         IN  IF done.kind = "return"
             THEN [kind |-> "return", value |-> done.value, invoked |-> <<handler>>]
             ELSE [kind |-> "raise", exc |-> done.exc, invoked |-> <<handler>>]

(* The outcome of handle_tool_call, with the handlers it invoked.          *)
HandleToolCallOutcome(t, cm, tool_name, arguments) ==
    IF ~Has(t, tool_name)
    THEN [kind |-> "raise",
          exc |-> [type |-> "ValueError", msg |-> <<"Tool", tool_name, "not found">>],
          invoked |-> <<>>]
    ELSE LET handler == Get(t, tool_name).handler
             called == Call(cm, handler, arguments)
             done == IF IsCoroutineFunction(handler) THEN Await(cm, called) ELSE called
         IN  IF done.kind = "return"
             THEN [kind |-> "return", value |-> done.value, invoked |-> <<handler>>]
             ELSE [kind |-> "raise", exc |-> done.exc, invoked |-> <<handler>>]

(* The callers of the server, and where each stands: idle between its     *)
(* operations, or inside one with what it holds there.                     *)
NumCallers == 3
Callers == 1 .. NumCallers

Idle == [pc |-> "idle", tool_name |-> "", description |-> "", handler |-> "",
         arguments |-> 0]

NoTasks == [c \in Callers |-> Idle]

(* No jobs directory: ./ingestion_jobs does not exist.                     *)
NoJobs == [exists |-> FALSE, files |-> <<>>]

(* The configuration manager as handle_tool_call leaves it: the handler's *)
(* body runs when the tool is found and the arguments fit.                 *)
HandleToolCallManager(t, cm, tool_name, arguments) ==
    IF ~Has(t, tool_name) THEN cm
    ELSE LET handler == Get(t, tool_name).handler
         IN  IF Binds(handler, arguments)
             THEN BodyManager(cm, handler, arguments)
             ELSE cm

InitBase ==
    /\ tools = <<>>
    /\ resources = <<>>
    /\ is_running = FALSE
    /\ clients = <<>>
    /\ host = "localhost"
    /\ port = 8080
    /\ config_manager = NoManager
    /\ tasks = NoTasks
    /\ routes = <<>>
    /\ jobs = NoJobs
    /\ last = [op |-> "__init__", class |-> "MCPServer"]

(* Mutant: start is refused on a server that is already running.           *)
StartRefusedWhenRunning(h, p) ==
    /\ ~is_running
    /\ is_running' = TRUE
    /\ host' = h
    /\ port' = p
    /\ last' = [op |-> "start", host |-> h, port |-> p,
                was_running |-> is_running, old_host |-> host, old_port |-> port]
    /\ UNCHANGED <<tools, resources, clients, config_manager, tasks, routes, jobs>>

(* Mutant: start on a running server keeps the address it already has.     *)
StartKeepsAddress(h, p) ==
    /\ is_running' = TRUE
    /\ host' = IF is_running THEN host ELSE h
    /\ port' = IF is_running THEN port ELSE p
    /\ last' = [op |-> "start", host |-> h, port |-> p,
                was_running |-> is_running, old_host |-> host, old_port |-> port]
    /\ UNCHANGED <<tools, resources, clients, config_manager, tasks, routes, jobs>>

Start(h, p) ==
    /\ is_running' = TRUE
    /\ host' = h
    /\ port' = p
    /\ last' = [op |-> "start", host |-> h, port |-> p,
                was_running |-> is_running, old_host |-> host, old_port |-> port]
    /\ UNCHANGED <<tools, resources, clients, config_manager, tasks, routes, jobs>>

(* Mutant: stop also empties the tool registry.                            *)
StopClearsTools ==
    /\ is_running' = FALSE
    /\ clients' = <<>>
    /\ tools' = <<>>
    /\ last' = [op |-> "stop", was_running |-> is_running]
    /\ UNCHANGED <<resources, host, port, config_manager, tasks, routes, jobs>>

(* Mutant: stop puts the address back to the constructor's defaults.       *)
StopResetsAddress ==
    /\ is_running' = FALSE
    /\ clients' = <<>>
    /\ host' = "localhost"
    /\ port' = 8080
    /\ last' = [op |-> "stop", was_running |-> is_running]
    /\ UNCHANGED <<tools, resources, config_manager, tasks, routes, jobs>>

Stop ==
    /\ is_running' = FALSE
    /\ clients' = <<>>
    /\ last' = [op |-> "stop", was_running |-> is_running]
    /\ UNCHANGED <<tools, resources, host, port, config_manager, tasks, routes, jobs>>

RegisterTool(name, description, handler) ==
    /\ tools' = RegisterToolMap(tools, name, description, handler)
    /\ last' = [op |-> "register_tool", name |-> name, description |-> description,
                handler |-> handler, overwrote |-> Has(tools, name)]
    /\ UNCHANGED <<resources, is_running, clients, host, port, config_manager, tasks, routes, jobs>>

RegisterResource(uri, content) ==
    /\ resources' = RegisterResourceMap(resources, uri, content)
    /\ last' = [op |-> "register_resource", uri |-> uri, content |-> content,
                overwrote |-> Has(resources, uri)]
    /\ UNCHANGED <<tools, is_running, clients, host, port, config_manager, tasks, routes, jobs>>

(* Mutant: a failed call takes the server down.                            *)
HandleToolCallCrashes(tool_name, arguments) ==
    LET outcome == HandleToolCallOutcome(tools, config_manager, tool_name, arguments)
    IN  /\ last' = [op |-> "handle_tool_call", tool_name |-> tool_name,
                    arguments |-> arguments, outcome |-> outcome]
        /\ is_running' = IF outcome.kind = "raise" THEN FALSE ELSE is_running
        /\ UNCHANGED <<tools, resources, clients, host, port, config_manager, tasks, routes, jobs>>

(* Mutant: a tool can be called only while the server is running.          *)
HandleToolCallWhenRunning(tool_name, arguments) ==
    /\ last' = [op |-> "handle_tool_call", tool_name |-> tool_name,
                arguments |-> arguments,
                outcome |->
                    IF is_running
                    THEN HandleToolCallOutcome(tools, config_manager, tool_name, arguments)
                    ELSE [kind |-> "raise",
                          exc |-> [type |-> "RuntimeError",
                                   msg |-> <<"Server is not running">>],
                          invoked |-> <<>>]]
    /\ UNCHANGED <<server, tasks, routes, jobs>>

HandleToolCall(tool_name, arguments) ==
    /\ last' = [op |-> "handle_tool_call", tool_name |-> tool_name,
                arguments |-> arguments,
                outcome |-> HandleToolCallOutcome(tools, config_manager, tool_name, arguments)]
    /\ config_manager' = HandleToolCallManager(tools, config_manager, tool_name, arguments)
    /\ UNCHANGED <<tools, resources, is_running, clients, host, port, tasks, routes, jobs>>

ListToolsCall ==
    /\ last' = [op |-> "list_tools", result |-> ListTools(tools)]
    /\ UNCHANGED <<server, tasks, routes, jobs>>

ListResourcesCall ==
    /\ last' = [op |-> "list_resources", result |-> ListResources(resources)]
    /\ UNCHANGED <<server, tasks, routes, jobs>>

Next ==
    \/ \E a \in Addresses : Start(a[1], a[2])
    \/ Stop
    \/ \E n \in ToolNames, d \in Descriptions, h \in UserHandlers : RegisterTool(n, d, h)
    \/ \E u \in Uris, c \in Contents : RegisterResource(u, c)
    \/ \E n \in ToolNames \cup {UnknownName}, a \in Arguments : HandleToolCall(n, a)
    \/ ListToolsCall
    \/ ListResourcesCall

Spec == InitBase /\ [][Next]_vars

----------------------------------------------------------------------------
(* PoliticalDocumentMCPServer                                              *)

(* The registrations of _register_default_tools, in order.                 *)
(* Mutant: the configuration tools are registered before the others.      *)
DefaultToolsConfigFirst ==
    << [name |-> "get_config",
        description |-> "Get application configuration",
        handler |-> "get_configuration"],
       [name |-> "update_config",
        description |-> "Update application configuration",
        handler |-> "update_configuration"],
       [name |-> "index_documents",
        description |-> "Index documents for search and retrieval",
        handler |-> "index_documents"],
       [name |-> "analyze_political_content",
        description |-> "Analyze political content and extract key topics",
        handler |-> "analyze_political_content"],
       [name |-> "query_database",
        description |-> "Query configured databases (SQL or Neo4j)",
        handler |-> "query_database"] >>

DefaultTools ==
    << [name |-> "index_documents",
        description |-> "Index documents for search and retrieval",
        handler |-> "index_documents"],
       [name |-> "analyze_political_content",
        description |-> "Analyze political content and extract key topics",
        handler |-> "analyze_political_content"],
       [name |-> "query_database",
        description |-> "Query configured databases (SQL or Neo4j)",
        handler |-> "query_database"],
       [name |-> "get_config",
        description |-> "Get application configuration",
        handler |-> "get_configuration"],
       [name |-> "update_config",
        description |-> "Update application configuration",
        handler |-> "update_configuration"] >>

RECURSIVE RegisterAll(_, _)
RegisterAll(t, regs) ==
    IF regs = <<>> THEN t
    ELSE RegisterAll(RegisterToolMap(t, Head(regs).name, Head(regs).description,
                                     Head(regs).handler),
                     Tail(regs))

RegisterDefaultTools(t) == RegisterAll(t, DefaultTools)

(* not api_key: None and the empty string are falsy.                       *)
Falsy(api_key) == api_key.none \/ api_key.s = ""

valid_keys == <<"valid-api-key", "admin-key", "service-key">>

(* Mutant: any non-empty credential is accepted.                           *)
ValidateAnyKey(tool_name, api_key) == ~Falsy(api_key)

ValidateToolAccess(tool_name, api_key) ==
    IF Falsy(api_key) THEN FALSE
    ELSE \E i \in DOMAIN valid_keys : valid_keys[i] = api_key.s

(* Mutant: the secure call dispatches without checking the credential.    *)
HandleSecureNoCheck(t, cm, tool_name, arguments, api_key) ==
    HandleToolCallOutcome(t, cm, tool_name, arguments)

(* Mutant: the name is looked up before the credential is checked.         *)
HandleSecureLookupFirst(t, cm, tool_name, arguments, api_key) ==
    IF ~Has(t, tool_name)
    THEN HandleToolCallOutcome(t, cm, tool_name, arguments)
    ELSE IF ~ValidateToolAccess(tool_name, api_key)
    THEN [kind |-> "raise",
          exc |-> [type |-> "PermissionError",
                   msg |-> <<"Invalid API key or insufficient permissions">>],
          invoked |-> <<>>]
    ELSE HandleToolCallOutcome(t, cm, tool_name, arguments)

HandleSecureToolCallOutcome(t, cm, tool_name, arguments, api_key) ==
    IF ~ValidateToolAccess(tool_name, api_key)
    THEN [kind |-> "raise",
          exc |-> [type |-> "PermissionError",
                   msg |-> <<"Invalid API key or insufficient permissions">>],
          invoked |-> <<>>]
    ELSE HandleToolCallOutcome(t, cm, tool_name, arguments)

ConfigManagers == {NoManager, Manager(<<>>)}

InitPolitical ==
    /\ tools = RegisterDefaultTools(<<>>)
    /\ resources = <<>>
    /\ is_running = FALSE
    /\ clients = <<>>
    /\ host = "localhost"
    /\ port = 8080
    /\ config_manager \in ConfigManagers
    /\ tasks = NoTasks
    /\ routes = <<>>
    /\ jobs = NoJobs
    /\ last = [op |-> "__init__", class |-> "PoliticalDocumentMCPServer"]

ValidateToolAccessCall(tool_name, api_key) ==
    /\ last' = [op |-> "validate_tool_access", tool_name |-> tool_name,
                api_key |-> api_key,
                result |-> ValidateToolAccess(tool_name, api_key)]
    /\ UNCHANGED <<server, tasks, routes, jobs>>

HandleSecureToolCall(tool_name, arguments, api_key) ==
    /\ last' = [op |-> "handle_secure_tool_call", tool_name |-> tool_name,
                arguments |-> arguments, api_key |-> api_key,
                outcome |-> HandleSecureToolCallOutcome(tools, config_manager,
                                                       tool_name, arguments, api_key)]
    /\ config_manager' =
           IF ValidateToolAccess(tool_name, api_key)
           THEN HandleToolCallManager(tools, config_manager, tool_name, arguments)
           ELSE config_manager
    /\ UNCHANGED <<tools, resources, is_running, clients, host, port, tasks, routes, jobs>>

(* Inputs of the political server's callers.                               *)
PoliticalToolNames == {"x"}
PoliticalUris == {"u1"}
PoliticalDescriptions == {"d1"}
PoliticalContents == {"c1"}
PoliticalAddresses == {<<"host2", 9090>>}
CalledNames == {"query_database", "get_config", "update_config", "x", UnknownName}

ApiKeys ==
    {None, Str(""), Str("valid-api-key"), Str("admin-key"), Str("service-key"),
     Str("bad-key"), Str("VALID-API-KEY")}

ArgumentsFor(tool_name) ==
    CASE tool_name = "query_database" ->
             {[query |-> "q1"],
              [query |-> "q1", database_type |-> "sql"],
              [query |-> "q1", database_type |-> "neo4j"],
              [query |-> "q1", database_type |-> "mongo"],
              [database_type |-> "sql"]}
      [] tool_name = "get_config" -> {[config_type |-> "database"]}
      [] tool_name = "update_config" ->
             {[config_type |-> "database",
               updates |-> Dict(<<Item("sql_database",
                                       Dict(<<Item("host", Scalar("db1"))>>))>>)]}
      [] OTHER -> {1}

NextPolitical ==
    \/ \E a \in PoliticalAddresses : Start(a[1], a[2])
    \/ Stop
    \/ \E n \in PoliticalToolNames, d \in PoliticalDescriptions, h \in UserHandlers :
           RegisterTool(n, d, h)
    \/ \E u \in PoliticalUris, c \in PoliticalContents : RegisterResource(u, c)
    \/ \E n \in CalledNames : \E a \in ArgumentsFor(n) : HandleToolCall(n, a)
    \/ \E n \in CalledNames : \E a \in ArgumentsFor(n) : \E k \in ApiKeys :
           HandleSecureToolCall(n, a, k)
    \/ \E n \in CalledNames, k \in ApiKeys : ValidateToolAccessCall(n, k)
    \/ ListToolsCall
    \/ ListResourcesCall

SpecPolitical == InitPolitical /\ [][NextPolitical]_vars

----------------------------------------------------------------------------
(* The default tools, called through handle_tool_call with a wider range   *)
(* of arguments.                                                           *)

Vocabulary == {"healthcare", "Medical", "tax", "reform"}
MaxTextLen == 3

RECURSIVE SeqsUpTo(_, _)
SeqsUpTo(S, n) ==
    IF n = 0 THEN {<<>>}
    ELSE LET shorter == SeqsUpTo(S, n - 1)
         IN  shorter \cup {Append(q, x) : q \in shorter, x \in S}

Texts == SeqsUpTo(Vocabulary, MaxTextLen)

Queries == {"q1", "q2"}
DatabaseTypes == {"sql", "neo4j", "mongo", "SQL", ""}

MaxPaths == 2
PathLists == SeqsUpTo(Paths, MaxPaths)

ToolNamesCalled == {"query_database", "analyze_political_content", "index_documents"}

ToolArguments(tool_name) ==
    CASE tool_name = "query_database" ->
             {[query |-> q] : q \in Queries}
                 \cup {[query |-> q, database_type |-> d] :
                           q \in Queries, d \in DatabaseTypes}
                 \cup {[database_type |-> "sql"]}
      [] tool_name = "analyze_political_content" -> {[text |-> t] : t \in Texts}
      [] tool_name = "index_documents" -> {[document_paths |-> l] : l \in PathLists}

NextTools ==
    \E n \in ToolNamesCalled : \E a \in ToolArguments(n) : HandleToolCall(n, a)

SpecTools == InitPolitical /\ [][NextTools]_vars

----------------------------------------------------------------------------
(* The two configuration tools, called on servers built without and with   *)
(* a configuration manager, over configuration directories that hold no    *)
(* file, a YAML file, or a JSON and a YAML file of the same name.          *)

ConfigTypes == {"database", "other"}

Updates ==
    { Dict(<<Item("port", Scalar("9000"))>>),
      Dict(<<Item("sql_database", Dict(<<Item("host", Scalar("db1"))>>))>>),
      Dict(<<Item("sql_database", Scalar("off"))>>) }

YamlDatabase ==
    Item(<<"database", "yaml">>,
         Dump("yaml", Dict(<<Item("sql_database",
                                  Dict(<<Item("host", Scalar("yamlhost"))>>))>>)))

JsonDatabase ==
    Item(<<"database", "json">>,
         Dump("json", Dict(<<Item("sql_database",
                                  Dict(<<Item("host", Scalar("jsonhost"))>>))>>)))

ConfigDirs == {<<>>, <<YamlDatabase>>, <<YamlDatabase, JsonDatabase>>}

ConfigToolNames == {"get_config", "update_config"}

ConfigArguments(tool_name) ==
    CASE tool_name = "get_config" -> {[config_type |-> c] : c \in ConfigTypes}
      [] tool_name = "update_config" ->
             {[config_type |-> c, updates |-> u] : c \in ConfigTypes, u \in Updates}
                 \cup {[config_type |-> "database"]}

InitConfig ==
    /\ tools = RegisterDefaultTools(<<>>)
    /\ resources = <<>>
    /\ is_running = FALSE
    /\ clients = <<>>
    /\ host = "localhost"
    /\ port = 8080
    /\ config_manager \in {NoManager} \cup {Manager(d) : d \in ConfigDirs}
    /\ tasks = NoTasks
    /\ routes = <<>>
    /\ jobs = NoJobs
    /\ last = [op |-> "__init__", class |-> "PoliticalDocumentMCPServer"]

NextConfig ==
    \E n \in ConfigToolNames : \E a \in ConfigArguments(n) : HandleToolCall(n, a)

SpecConfig == InitConfig /\ [][NextConfig]_vars

----------------------------------------------------------------------------
(* Several callers on one event loop.  A caller's register_tool and        *)
(* list_tools run to their end in one step, since they await nothing; its  *)
(* handle_tool_call runs to its end in one step, or, when the handler is a *)
(* coroutine function, stops at the await with the handler it looked up    *)
(* and goes on when the loop resumes it, if ever.                          *)

AsyncToolNames == {"x", "y"}
AsyncCalledNames == AsyncToolNames \cup {UnknownName}
AsyncHandlers == {"search_tool", "call_external_api"}
AsyncDescription == "d1"

(* Mutant: a caller runs only while no call is suspended, as if one lock   *)
(* were held across the handler's execution.                               *)
CanRunExclusive(tk, c) == \A other \in Callers : tk[other].pc = "idle"

(* A caller starts an operation when it is not itself inside one.          *)
CanRun(tk, c) == tk[c].pc = "idle"

(* Mutant: a call of a name reuses the handler that a suspended call of    *)
(* the same name looked up.                                                *)
ResolveCached(t, tk, tool_name) ==
    IF \E c \in Callers : tk[c].pc = "suspended" /\ tk[c].tool_name = tool_name
    THEN tk[CHOOSE c \in Callers :
                tk[c].pc = "suspended" /\ tk[c].tool_name = tool_name].handler
    ELSE Get(t, tool_name).handler

(* tool = self.tools[tool_name]; handler = tool["handler"]: looked up in   *)
(* the map as it is now, whatever calls are suspended.                     *)
Resolve(t, tk, tool_name) == Get(t, tool_name).handler

TaskRegisterTool(c, name, description, handler) ==
    /\ CanRun(tasks, c)
    /\ RegisterTool(name, description, handler)

TaskListTools(c) ==
    /\ CanRun(tasks, c)
    /\ ListToolsCall

(* handle_tool_call that reaches its end without being suspended.          *)
TaskCall(c, tool_name, arguments) ==
    /\ CanRun(tasks, c)
    /\ HandleToolCall(tool_name, arguments)

(* handle_tool_call up to the await of a coroutine that suspends.          *)
TaskSuspend(c, tool_name, arguments) ==
    /\ CanRun(tasks, c)
    /\ Has(tools, tool_name)
    /\ LET handler == Resolve(tools, tasks, tool_name)
       IN  /\ IsCoroutineFunction(handler)
           /\ Binds(handler, arguments)
           /\ tasks' = [tasks EXCEPT ![c] =
                            [pc |-> "suspended", tool_name |-> tool_name,
                             description |-> "", handler |-> handler,
                             arguments |-> arguments]]
           /\ last' = [op |-> "await", tool_name |-> tool_name,
                       arguments |-> arguments, handler |-> handler]
    /\ UNCHANGED <<server, routes, jobs>>

(* The suspended coroutine runs to its end and the call returns or raises. *)
TaskResume(c) ==
    /\ tasks[c].pc = "suspended"
    /\ LET handler == tasks[c].handler
           done == Body(config_manager, handler, tasks[c].arguments)
       IN  /\ last' = [op |-> "handle_tool_call", tool_name |-> tasks[c].tool_name,
                       arguments |-> tasks[c].arguments,
                       outcome |->
                           IF done.kind = "return"
                           THEN [kind |-> "return", value |-> done.value,
                                 invoked |-> <<handler>>]
                           ELSE [kind |-> "raise", exc |-> done.exc,
                                 invoked |-> <<handler>>]]
           /\ config_manager' = BodyManager(config_manager, handler, tasks[c].arguments)
    /\ tasks' = [tasks EXCEPT ![c] = Idle]
    /\ UNCHANGED <<tools, resources, is_running, clients, host, port, routes, jobs>>

NextAsync ==
    \E c \in Callers :
        \/ \E n \in AsyncToolNames : \E h \in AsyncHandlers :
               TaskRegisterTool(c, n, AsyncDescription, h)
        \/ TaskListTools(c)
        \/ \E n \in AsyncCalledNames : \E a \in Arguments : TaskCall(c, n, a)
        \/ \E n \in AsyncCalledNames : \E a \in Arguments : TaskSuspend(c, n, a)
        \/ TaskResume(c)

SpecAsync == InitBase /\ [][NextAsync]_vars

----------------------------------------------------------------------------
(* Parallel callers, each registering a tool name of its own.  A caller    *)
(* first builds its entry and then stores it into the map; the store is    *)
(* one step, a single dict assignment.                                     *)

ParallelName(c) == <<"tool", c>>
ParallelDescriptions == {"d1", "d2"}

InitParallel ==
    /\ tools = <<>>
    /\ resources = <<>>
    /\ is_running = FALSE
    /\ clients = <<>>
    /\ host = "localhost"
    /\ port = 8080
    /\ config_manager = NoManager
    /\ tasks = [c \in Callers |->
                  [pc |-> "idle", tool_name |-> ParallelName(c), description |-> "",
                   handler |-> "", arguments |-> 0]]
    /\ routes = <<>>
    /\ jobs = NoJobs
    /\ last = [op |-> "__init__", class |-> "MCPServer"]

BuildEntry(c, description) ==
    /\ tasks[c].pc = "idle"
    /\ tasks' = [tasks EXCEPT ![c].pc = "built",
                              ![c].description = description,
                              ![c].handler = "search_tool"]
    /\ UNCHANGED <<server, routes, jobs, last>>

StoreEntry(c) ==
    /\ tasks[c].pc = "built"
    /\ tools' = RegisterToolMap(tools, tasks[c].tool_name, tasks[c].description,
                                tasks[c].handler)
    /\ last' = [op |-> "register_tool", name |-> tasks[c].tool_name,
                description |-> tasks[c].description, handler |-> tasks[c].handler,
                overwrote |-> Has(tools, tasks[c].tool_name)]
    /\ tasks' = [tasks EXCEPT ![c].pc = "done"]
    /\ UNCHANGED <<resources, is_running, clients, host, port, config_manager,
                   routes, jobs>>

NextParallel ==
    \/ \E c \in Callers : \E d \in ParallelDescriptions : BuildEntry(c, d)
    \/ \E c \in Callers : StoreEntry(c)
    \/ ListToolsCall

SpecParallel == InitParallel /\ [][NextParallel]_vars

----------------------------------------------------------------------------
(* The configuration manager on its own: load_config, save_config and      *)
(* update_config called directly, as the tests and the web interface do.   *)

StoreNames == {"database", "other"}
SavedNames == {"database"}
Formats == {"json", "yaml", "xml"}

SavedConfigs ==
    { Dict(<<>>),
      Dict(<<Item("sql_database", Dict(<<Item("type", Scalar("postgresql")),
                                         Item("host", Scalar("test-host"))>>))>>) }

(* The outcome of save_config: None, or the error for an unknown format.   *)
SaveConfigOutcome(format) ==
    IF format \in {"json", "yaml"}
    THEN Returned("None")
    ELSE Raised("ValueError", <<"Unsupported format", format>>)

InitStore ==
    /\ tools = <<>>
    /\ resources = <<>>
    /\ is_running = FALSE
    /\ clients = <<>>
    /\ host = "localhost"
    /\ port = 8080
    /\ config_manager \in {Manager(d) : d \in ConfigDirs}
    /\ tasks = NoTasks
    /\ routes = <<>>
    /\ jobs = NoJobs
    /\ last = [op |-> "__init__", class |-> "ConfigurationManager"]

LoadConfigCall(config_name) ==
    /\ last' = [op |-> "load_config", config_name |-> config_name,
                result |-> LoadConfig(config_manager, config_name).config]
    /\ config_manager' = LoadConfig(config_manager, config_name).cm
    /\ UNCHANGED <<tools, resources, is_running, clients, host, port, tasks, routes, jobs>>

SaveConfigCall(config_name, config, format) ==
    /\ last' = [op |-> "save_config", config_name |-> config_name,
                config |-> config, format |-> format,
                outcome |-> SaveConfigOutcome(format)]
    /\ config_manager' =
           IF SaveConfigOutcome(format).kind = "return"
           THEN SaveConfig(config_manager, config_name, config, format)
           ELSE config_manager
    /\ UNCHANGED <<tools, resources, is_running, clients, host, port, tasks, routes, jobs>>

UpdateConfigCall(config_name, updates) ==
    /\ last' = [op |-> "update_config", config_name |-> config_name,
                updates |-> updates,
                result |-> UpdateConfig(config_manager, config_name, updates).config]
    /\ config_manager' = UpdateConfig(config_manager, config_name, updates).cm
    /\ UNCHANGED <<tools, resources, is_running, clients, host, port, tasks, routes, jobs>>

NextStore ==
    \/ \E n \in StoreNames : LoadConfigCall(n)
    \/ \E n \in SavedNames : \E c \in SavedConfigs : \E f \in Formats :
           SaveConfigCall(n, c, f)
    \/ \E n \in StoreNames : \E u \in Updates : UpdateConfigCall(n, u)

SpecStore == InitStore /\ [][NextStore]_vars

----------------------------------------------------------------------------
(* MockWebApp and WebInterface (web_interface.py)                          *)

(* The characters of the methods and paths that make up route keys.        *)
RouteChars(s) ==
    CASE s = "GET" -> <<"G", "E", "T">>
      [] s = "POST" -> <<"P", "O", "S", "T">>
      [] s = "/" -> <<"/">>
      [] s = "/api/config" -> <<"/", "a", "p", "i", "/", "c", "o", "n", "f", "i", "g">>
      [] s = "/api/documents" -> <<"/", "a", "p", "i", "/", "d", "o", "c", "u", "m", "e", "n", "t", "s">>
      [] s = "/api/search" -> <<"/", "a", "p", "i", "/", "s", "e", "a", "r", "c", "h">>
      [] s = "/api/analytics" -> <<"/", "a", "p", "i", "/", "a", "n", "a", "l", "y", "t", "i", "c", "s">>
      [] s = "/api/health" -> <<"/", "a", "p", "i", "/", "h", "e", "a", "l", "t", "h">>
      [] s = "/config" -> <<"/", "c", "o", "n", "f", "i", "g">>
      [] s = "/nonexistent" -> <<"/", "n", "o", "n", "e", "x", "i", "s", "t", "e", "n", "t">>
      [] s = "/t" -> <<"/", "t">>

(* f"{method}:{path}"                                                      *)
RouteKey(method, path) == RouteChars(method) \o <<":">> \o RouteChars(path)

(* The None object among the values of a request.                          *)
PyNone == Scalar("<None>")

(* not value, for the values a request carries.                            *)
FalsyValue(value) ==
    IF value.dict THEN value.items = <<>> ELSE value \in {PyNone, Scalar("")}

(* MockRequest(method, path, json_data, query_params): x or {}.            *)
MockRequest(method, path, json_data, query_params) ==
    [method |-> method, path |-> path,
     json_data |-> IF FalsyValue(json_data) THEN Dict(<<>>) ELSE json_data,
     query_params |-> IF FalsyValue(query_params) THEN Dict(<<>>) ELSE query_params]

(* d.get(key, default) on a dict value.                                    *)
GetOr(d, key, default) == IF Has(d.items, key) THEN Get(d.items, key) ELSE default

(* What a handler does: it returns a MockResponse, returns a plain value,  *)
(* or raises; cm is the configuration manager as it leaves it.             *)
ReturnsResponse(data, status_code, cm) ==
    [kind |-> "return", is_response |-> TRUE, data |-> data,
     status_code |-> status_code, cm |-> cm]
ReturnsPlain(data, cm) ==
    [kind |-> "return", is_response |-> FALSE, data |-> data, cm |-> cm]
Raises(type, message, cm) ==
    [kind |-> "raise", exc |-> [type |-> type, message |-> message], cm |-> cm]

Home(cm, request) ==
    ReturnsPlain([title |-> "LlamaIndex Political Document Manager",
                  version |-> "1.0.0", status |-> "running"], cm)

HealthCheck(cm, request) ==
    ReturnsResponse([status |-> "healthy", timestamp |-> "2024-01-01T00:00:00Z",
                     version |-> "1.0.0"], 200, cm)

AllConfigTypes == <<"database", "deployment", "document_sources", "web_interface">>

RECURSIVE LoadAll(_, _, _)
LoadAll(cm, names, loaded) ==
    IF names = <<>> THEN [configs |-> loaded, cm |-> cm]
    ELSE LET l == LoadConfig(cm, Head(names))
         IN  LoadAll(l.cm, Tail(names), Append(loaded, Item(Head(names), l.config)))

(* GET /api/config                                                         *)
WebGetConfig(cm, request) ==
    LET config_type == GetOr(request.query_params, "type", Scalar("all"))
    IN  IF ~cm.present
        THEN ReturnsResponse([error |-> "Configuration manager not available"], 500, cm)
        ELSE IF config_type = Scalar("all")
        THEN LET all == LoadAll(cm, AllConfigTypes, <<>>)
             IN  ReturnsResponse(Dict(all.configs), 200, all.cm)
        ELSE LET l == LoadConfig(cm, config_type.v)
             IN  ReturnsResponse(Dict(<<Item(config_type.v, l.config)>>), 200, l.cm)

(* Mutant: a body without a type updates the database configuration.      *)
WebUpdateConfigDefaultsType(cm, request) ==
    IF ~cm.present
    THEN ReturnsResponse([error |-> "Configuration manager not available"], 500, cm)
    ELSE IF ~request.json_data.dict
    THEN Raises("AttributeError", "'str' object has no attribute 'get'", cm)
    ELSE LET data == request.json_data
             given == GetOr(data, "type", PyNone)
             config_type == IF FalsyValue(given) THEN Scalar("database") ELSE given
             updates == GetOr(data, "updates", Dict(<<>>))
         IN  IF ~updates.dict
             THEN ReturnsResponse([error |-> "'str' object has no attribute 'items'"],
                                  500, LoadConfig(cm, config_type.v).cm)
             ELSE LET u == UpdateConfig(cm, config_type.v, updates)
                  IN  ReturnsResponse([success |-> TRUE, config_type |-> config_type.v,
                                       updated_config |-> u.config], 200, u.cm)

(* POST /api/config                                                        *)
WebUpdateConfig(cm, request) ==
    IF ~cm.present
    THEN ReturnsResponse([error |-> "Configuration manager not available"], 500, cm)
    ELSE IF ~request.json_data.dict
    THEN Raises("AttributeError", "'str' object has no attribute 'get'", cm)
    ELSE LET data == request.json_data
             config_type == GetOr(data, "type", PyNone)
             updates == GetOr(data, "updates", Dict(<<>>))
         IN  IF FalsyValue(config_type)
             THEN ReturnsResponse([error |-> "Configuration type required"], 400, cm)
             ELSE IF ~updates.dict
             THEN ReturnsResponse([error |-> "'str' object has no attribute 'items'"],
                                  500, LoadConfig(cm, config_type.v).cm)
             ELSE LET u == UpdateConfig(cm, config_type.v, updates)
                  IN  ReturnsResponse([success |-> TRUE, config_type |-> config_type.v,
                                       updated_config |-> u.config], 200, u.cm)

(* POST /api/search                                                        *)
SearchDocuments(cm, request) ==
    IF ~request.json_data.dict
    THEN Raises("AttributeError", "'str' object has no attribute 'get'", cm)
    ELSE LET query == GetOr(request.json_data, "query", Scalar(""))
             filters == GetOr(request.json_data, "filters", Dict(<<>>))
         IN  IF FalsyValue(query)
             THEN ReturnsResponse([error |-> "Search query required"], 400, cm)
             ELSE ReturnsResponse([results |-> <<"results for", query>>, total |-> 5,
                                   query |-> query, filters |-> filters,
                                   took_ms |-> 25], 200, cm)

WebHandlers == {"home", "get_config", "update_config", "search_documents",
                "health_check"}

WebBody(cm, handler, request) ==
    CASE handler = "home" -> Home(cm, request)
      [] handler = "get_config" -> WebGetConfig(cm, request)
      [] handler = "update_config" -> WebUpdateConfig(cm, request)
      [] handler = "search_documents" -> SearchDocuments(cm, request)
      [] handler = "health_check" -> HealthCheck(cm, request)

(* app.route(path, methods)(func): methods or ["GET"], one key per method. *)
RECURSIVE RouteEach(_, _, _, _)
RouteEach(r, path, methods, func) ==
    IF methods = <<>> THEN r
    ELSE RouteEach(SetItem(r, RouteKey(Head(methods), path), func), path,
                   Tail(methods), func)

RouteMap(r, path, methods, func) ==
    RouteEach(r, path, IF methods = <<>> THEN <<"GET">> ELSE methods, func)

(* WebInterface._setup_routes                                              *)
SetupRoutes ==
    LET r1 == RouteMap(<<>>, "/", <<>>, "home")
        r2 == RouteMap(r1, "/api/config", <<"GET">>, "get_config")
        r3 == RouteMap(r2, "/api/config", <<"POST">>, "update_config")
        r4 == RouteMap(r3, "/api/documents", <<"GET">>, "list_documents")
        r5 == RouteMap(r4, "/api/documents", <<"POST">>, "upload_document")
        r6 == RouteMap(r5, "/api/search", <<"POST">>, "search_documents")
        r7 == RouteMap(r6, "/api/analytics", <<"GET">>, "get_analytics")
        r8 == RouteMap(r7, "/api/health", <<"GET">>, "health_check")
    IN  RouteMap(r8, "/config", <<"GET">>, "config_page")

NotFoundResponse == [data |-> [error |-> "Not found"], status_code |-> 404]

(* Mutant: handle_request has no try/except around the handler.            *)
HandleRequestPropagates(r, cm, request) ==
    LET route_key == RouteKey(request.method, request.path)
    IN  IF Has(r, route_key)
        THEN LET handler == Get(r, route_key)
                 result == WebBody(cm, handler, request)
             IN  IF result.kind = "raise"
                 THEN [kind |-> "raise", exc |-> result.exc,
                       invoked |-> <<handler>>, cm |-> result.cm]
                 ELSE [kind |-> "return",
                       response |-> [data |-> result.data,
                                     status_code |-> IF result.is_response
                                                     THEN result.status_code ELSE 200],
                       invoked |-> <<handler>>, cm |-> result.cm]
        ELSE [kind |-> "return", response |-> NotFoundResponse,
              invoked |-> <<>>, cm |-> cm]

(* MockWebApp.handle_request(request)                                      *)
HandleRequestOutcome(r, cm, request) ==
    LET route_key == RouteKey(request.method, request.path)
    IN  IF Has(r, route_key)
        THEN LET handler == Get(r, route_key)
                 result == WebBody(cm, handler, request)
             IN  IF result.kind = "raise"
                 THEN [kind |-> "return",
                       response |-> [data |-> [error |-> result.exc.message],
                                     status_code |-> 500],
                       invoked |-> <<handler>>, cm |-> result.cm]
                 ELSE [kind |-> "return",
                       response |-> [data |-> result.data,
                                     status_code |-> IF result.is_response
                                                     THEN result.status_code ELSE 200],
                       invoked |-> <<handler>>, cm |-> result.cm]
        ELSE [kind |-> "return", response |-> NotFoundResponse,
              invoked |-> <<>>, cm |-> cm]

(* WebInterface(config_manager)                                            *)
InitWeb ==
    /\ tools = <<>>
    /\ resources = <<>>
    /\ is_running = FALSE
    /\ clients = <<>>
    /\ host = "localhost"
    /\ port = 8080
    /\ config_manager \in ConfigManagers
    /\ tasks = NoTasks
    /\ routes = SetupRoutes
    /\ jobs = NoJobs
    /\ last = [op |-> "__init__", class |-> "WebInterface"]

Route(path, methods, func) ==
    /\ routes' = RouteMap(routes, path, methods, func)
    /\ last' = [op |-> "route", path |-> path, methods |-> methods, func |-> func]
    /\ UNCHANGED <<server, tasks, jobs>>

HandleRequest(request) ==
    LET outcome == HandleRequestOutcome(routes, config_manager, request)
    IN  /\ last' = [op |-> "handle_request", request |-> request,
                    outcome |-> [f \in DOMAIN outcome \ {"cm"} |-> outcome[f]]]
        /\ config_manager' = outcome.cm
        /\ UNCHANGED <<tools, resources, is_running, clients, host, port, tasks,
                       routes, jobs>>

(* The requests sent, and the routes added to the application.             *)
ExtraPaths == {"/t"}
ExtraMethods == {<<>>, <<"GET", "POST">>}
ExtraHandlers == {"home", "search_documents"}

TypeOnly(t) == Dict(<<Item("type", Scalar(t))>>)

ConfigBodies ==
    { PyNone,
      Scalar("invalid json structure"),
      Dict(<<Item("updates", Dict(<<Item("some", Scalar("data"))>>))>>),
      Dict(<<Item("type", Scalar("")),
             Item("updates", Dict(<<Item("some", Scalar("data"))>>))>>),
      Dict(<<Item("type", Scalar("database")),
             Item("updates",
                  Dict(<<Item("sql_database",
                              Dict(<<Item("host", Scalar("new-database-host"))>>))>>))>>),
      Dict(<<Item("type", Scalar("database")), Item("updates", Scalar("text"))>>) }

SearchBodies == {PyNone, Scalar("invalid json structure"),
                 Dict(<<Item("query", Scalar("healthcare policy"))>>)}

Requests ==
    {MockRequest(m, p, PyNone, PyNone) :
         m \in {"GET", "POST"}, p \in {"/", "/api/health", "/nonexistent"}}
      \cup {MockRequest("GET", "/api/config", PyNone, q) :
                q \in {PyNone, TypeOnly("all"), TypeOnly("database"), TypeOnly("other")}}
      \cup {MockRequest("POST", "/api/config", b, PyNone) : b \in ConfigBodies}
      \cup {MockRequest(m, p, b, PyNone) :
                m \in {"GET", "POST"}, p \in {"/api/search", "/t"}, b \in SearchBodies}

NextWeb ==
    \/ \E p \in ExtraPaths : \E m \in ExtraMethods : \E f \in ExtraHandlers :
           Route(p, m, f)
    \/ \E request \in Requests : HandleRequest(request)

SpecWeb == InitWeb /\ [][NextWeb]_vars

----------------------------------------------------------------------------
(* A server of either class, from its construction on.                     *)

InitEither == InitBase \/ InitPolitical

SpecEither == InitEither /\ [][NextPolitical]_vars

----------------------------------------------------------------------------
(* Properties of MCPServer, checked under Spec.                            *)

AllNames == ToolNames \cup {UnknownName}

NotFound(outcome, tool_name) ==
    /\ outcome.kind = "raise"
    /\ outcome.exc.type = "ValueError"
    /\ outcome.exc.msg = <<"Tool", tool_name, "not found">>
    /\ outcome.invoked = <<>>

(* C1: a call of a name that is not a key of tools fails with the          *)
(* not-found error, whatever the arguments: it returns no value and runs   *)
(* no handler.  Stated of the call just made and of every call that could  *)
(* be made in the current state.                                           *)
C1_UnknownToolFails ==
    /\ (last.op = "handle_tool_call" /\ ~Has(tools, last.tool_name))
           => NotFound(last.outcome, last.tool_name)
    /\ \A n \in AllNames, a \in Arguments :
           ~Has(tools, n)
               => NotFound(HandleToolCallOutcome(tools, config_manager, n, a), n)

(* An unknown name was called while another tool, with a handler that      *)
(* could have run, is registered.                                          *)
C1_Witness ==
    /\ last.op = "handle_tool_call"
    /\ ~Has(tools, last.tool_name)
    /\ tools # <<>>
    /\ last.outcome.kind = "raise"

EntriesNamed(listing, name) == {i \in DOMAIN listing : listing[i].name = name}

(* C3: registration is last-write-wins.  Right after register_tool(n,d,h), *)
(* list_tools has exactly one entry named n, its description is d, and a   *)
(* call of n runs h and nothing else; and an entry changes only in a       *)
(* registration of its own name, so this stays true until n is registered  *)
(* again.                                                                  *)
C3_AfterRegister ==
    last.op = "register_tool" =>
        LET listing == ListTools(tools)
        IN  /\ Cardinality(EntriesNamed(listing, last.name)) = 1
            /\ \A i \in EntriesNamed(listing, last.name) :
                   listing[i].description = last.description
            /\ \A a \in Arguments :
                   HandleToolCallOutcome(tools, config_manager, last.name, a).invoked
                       = <<last.handler>>

C3_OnlyOwnRegistrationChanges ==
    \A n \in ToolNames :
        (Has(tools, n) /\ ~(last'.op = "register_tool" /\ last'.name = n))
            => (Has(tools', n) /\ Get(tools', n) = Get(tools, n))

C3_LastWriteWins == [](C3_AfterRegister) /\ [][C3_OnlyOwnRegistrationChanges]_vars

(* A name was registered again while another name is registered too.       *)
C3_Witness ==
    /\ last.op = "register_tool"
    /\ last.overwrote
    /\ Len(tools) = 2

(* C4: through handle_tool_call a plain handler and a coroutine handler    *)
(* both complete, and the caller receives exactly the value the body of    *)
(* the handler returned (for a coroutine handler the awaited value, not    *)
(* the coroutine).                                                         *)
C4_SyncAndAsyncReturn ==
    (last.op = "handle_tool_call" /\ Has(tools, last.tool_name)) =>
        LET handler == Get(tools, last.tool_name).handler
            body == UserBody(handler, last.arguments)
        IN  body.kind = "return" =>
                /\ last.outcome.kind = "return"
                /\ last.outcome.value = body.value
                /\ last.outcome.invoked = <<handler>>

(* The coroutine handler was called and returned, with a plain handler     *)
(* registered under the other name.                                        *)
C4_Witness ==
    /\ last.op = "handle_tool_call"
    /\ Has(tools, last.tool_name)
    /\ IsCoroutineFunction(Get(tools, last.tool_name).handler)
    /\ last.outcome.kind = "return"
    /\ \E n \in ToolNames :
           /\ n # last.tool_name
           /\ Has(tools, n)
           /\ Get(tools, n).handler = "search_tool"

(* C5: when a registered handler raises, the caller receives a             *)
(* ToolExecutionError wrapping the failure, an error kind that is neither  *)
(* the not-found error's nor the handler's own, and the registries are     *)
(* unchanged.                                                              *)
C5_Step ==
    (/\ last'.op = "handle_tool_call"
     /\ Has(tools, last'.tool_name)
     /\ UserBody(Get(tools, last'.tool_name).handler, last'.arguments).kind = "raise")
        => /\ last'.outcome.kind = "raise"
           /\ last'.outcome.exc.type = "ToolExecutionError"
           /\ last'.outcome.exc.type
                  # UserBody(Get(tools, last'.tool_name).handler,
                             last'.arguments).exc.type
           /\ tools' = tools
           /\ resources' = resources

C5_HandlerFailureWrapped == [][C5_Step]_vars

(* C8: the lifecycle has two states and unconditional transitions.  A new  *)
(* server is stopped; a start leaves it running and a stop leaves it       *)
(* stopped, whatever the state before; no other operation changes          *)
(* is_running; start and stop are accepted in every state.                 *)
C8_Step ==
    /\ last'.op = "start" => is_running'
    /\ last'.op = "stop" => ~is_running'
    /\ last'.op \notin {"start", "stop"} => is_running' = is_running

C8_Accepted ==
    /\ \A a \in Addresses : ENABLED Start(a[1], a[2])
    /\ ENABLED Stop

C8_TwoStateLifecycle == ~is_running /\ [][C8_Step]_vars /\ []C8_Accepted

(* start was called on a server that was already running.                  *)
C8_Witness ==
    /\ last.op = "start"
    /\ last.was_running
    /\ is_running

(* C9: right after start(h, p) the server is running with host h and port  *)
(* p, whatever address it had before and whether or not it was running.    *)
C9_StartSetsAddress ==
    last.op = "start" =>
        /\ is_running
        /\ host = last.host
        /\ port = last.port

(* start("host2", 9090) on a server that was running at localhost:8080.    *)
C9_Witness ==
    /\ last.op = "start"
    /\ last.was_running
    /\ last.old_host = "localhost" /\ last.old_port = 8080
    /\ host = "host2" /\ port = 9090

(* C10: stop leaves the server stopped with no connected clients and the   *)
(* registries as they were; neither stop nor a later start changes what is *)
(* listed or what a call of any name does.                                 *)
C10_Step ==
    /\ last'.op = "stop" => (~is_running' /\ clients' = <<>>)
    /\ last'.op \in {"stop", "start"} =>
           /\ tools' = tools
           /\ resources' = resources
           /\ ListTools(tools') = ListTools(tools)
           /\ \A n \in AllNames, a \in Arguments :
                  HandleToolCallOutcome(tools', config_manager', n, a)
                      = HandleToolCallOutcome(tools, config_manager, n, a)

C10_StopKeepsRegistries == [][C10_Step]_vars

(* A running server with tools and resources registered was stopped.       *)
C10_Witness ==
    /\ last.op = "stop"
    /\ last.was_running
    /\ tools # <<>>
    /\ resources # <<>>

----------------------------------------------------------------------------
(* Properties of PoliticalDocumentMCPServer, checked under SpecPolitical.  *)

AllowList == {"valid-api-key", "admin-key", "service-key"}

Allowed(api_key) == ~api_key.none /\ api_key.s # "" /\ api_key.s \in AllowList

(* C2: a secure call of a registered tool runs the tool's handler exactly  *)
(* once and gives the caller the handler's result when the credential is   *)
(* in the allow-list, and fails with PermissionError without running any   *)
(* handler when the credential is missing or not in the allow-list.        *)
C2_SecureGate ==
    (last.op = "handle_secure_tool_call" /\ Has(tools, last.tool_name)) =>
        LET handler == Get(tools, last.tool_name).handler
            body == Body(config_manager, handler, last.arguments)
        IN  IF Allowed(last.api_key)
            THEN /\ last.outcome.invoked = <<handler>>
                 /\ Binds(handler, last.arguments) =>
                        /\ last.outcome.kind = body.kind
                        /\ body.kind = "return" => last.outcome.value = body.value
                        /\ body.kind = "raise" => last.outcome.exc = body.exc
            ELSE /\ last.outcome.kind = "raise"
                 /\ last.outcome.exc.type = "PermissionError"
                 /\ last.outcome.invoked = <<>>

(* A registered tool whose handler returns was called with "bad-key".      *)
C2_Witness ==
    /\ last.op = "handle_secure_tool_call"
    /\ last.api_key = Str("bad-key")
    /\ Has(tools, last.tool_name)
    /\ Binds(Get(tools, last.tool_name).handler, last.arguments)
    /\ Body(config_manager, Get(tools, last.tool_name).handler,
            last.arguments).kind = "return"
    /\ last.outcome.invoked = <<>>

(* C6: a failed call, plain or secure, whatever the reason, leaves tools,  *)
(* resources, is_running, host and port as they were, and with them the    *)
(* outcome of every plain call that can follow and of a secure call of the *)
(* same tool with the same arguments, with a good or a bad credential.     *)
C6_Step ==
    (/\ last'.op \in {"handle_tool_call", "handle_secure_tool_call"}
     /\ last'.outcome.kind = "raise")
        => /\ tools' = tools
           /\ resources' = resources
           /\ is_running' = is_running
           /\ host' = host
           /\ port' = port
           /\ \A n \in CalledNames : \A a \in ArgumentsFor(n) :
                  HandleToolCallOutcome(tools', config_manager', n, a)
                      = HandleToolCallOutcome(tools, config_manager, n, a)
           /\ \A k \in {Str("valid-api-key"), Str("bad-key")} :
                  HandleSecureToolCallOutcome(tools', config_manager',
                                              last'.tool_name, last'.arguments, k)
                      = HandleSecureToolCallOutcome(tools, config_manager,
                                                    last'.tool_name, last'.arguments, k)

C7_AllowListOnly ==
    /\ last.op = "validate_tool_access" =>
           /\ last.result \in BOOLEAN
           /\ last.result = Allowed(last.api_key)
    /\ \A n \in CalledNames, k \in ApiKeys : ValidateToolAccess(n, k) = Allowed(k)

(* Access was granted for a name that is not registered, on a stopped      *)
(* server.                                                                 *)
C7_Witness ==
    /\ last.op = "validate_tool_access"
    /\ last.result
    /\ ~Has(tools, last.tool_name)
    /\ ~is_running

----------------------------------------------------------------------------
(* Listing, lifecycle independence and the resource registry (Spec).       *)

NamesOf(listing) == [i \in DOMAIN listing |-> listing[i].name]

(* C14: list_tools returns one entry per registered tool, holding the name *)
(* and the description and nothing else, in the order in which the names   *)
(* were first registered: a new name goes to the end, a name registered    *)
(* again keeps its place, and nothing but a registration changes the       *)
(* listing.                                                                *)
C14_Listing ==
    last.op = "list_tools" =>
        /\ Len(last.result) = Len(tools)
        /\ \A i \in DOMAIN last.result :
               /\ DOMAIN last.result[i] = {"name", "description"}
               /\ last.result[i].name = tools[i].key
               /\ last.result[i].description = tools[i].val.description
        /\ \A i, j \in DOMAIN last.result :
               last.result[i].name = last.result[j].name => i = j

C14_Step ==
    /\ NamesOf(ListTools(tools')) =
           IF last'.op = "register_tool" /\ ~Has(tools, last'.name)
           THEN Append(NamesOf(ListTools(tools)), last'.name)
           ELSE NamesOf(ListTools(tools))
    /\ last'.op # "register_tool" => ListTools(tools') = ListTools(tools)

C14_ListInRegistrationOrder == [](C14_Listing) /\ [][C14_Step]_vars

(* The name registered first was registered again and is still listed      *)
(* first of two.                                                           *)
C14_Witness ==
    /\ last.op = "register_tool"
    /\ last.overwrote
    /\ Len(tools) = 2
    /\ ListTools(tools)[1].name = last.name

(* C15: registration, listing and dispatch do not look at the lifecycle    *)
(* state: each is accepted whether or not the server is running, and what  *)
(* it does is determined by its inputs and the registries alone.           *)
C15_Step ==
    /\ last'.op = "register_tool" =>
           tools' = RegisterToolMap(tools, last'.name, last'.description, last'.handler)
    /\ last'.op = "register_resource" =>
           resources' = RegisterResourceMap(resources, last'.uri, last'.content)
    /\ last'.op = "list_tools" => last'.result = ListTools(tools)
    /\ last'.op = "list_resources" => last'.result = ListResources(resources)
    /\ last'.op = "handle_tool_call" =>
           last'.outcome = HandleToolCallOutcome(tools, config_manager,
                                                 last'.tool_name, last'.arguments)
    /\ last'.op \in {"register_tool", "register_resource", "list_tools",
                     "list_resources", "handle_tool_call"} =>
           is_running' = is_running

C15_Accepted ==
    /\ \A n \in ToolNames, d \in Descriptions, h \in UserHandlers :
           ENABLED RegisterTool(n, d, h)
    /\ \A u \in Uris, c \in Contents : ENABLED RegisterResource(u, c)
    /\ \A n \in AllNames, a \in Arguments : ENABLED HandleToolCall(n, a)
    /\ ENABLED ListToolsCall
    /\ ENABLED ListResourcesCall

C15_NotGatedOnRunning == [](C15_Accepted) /\ [][C15_Step]_vars

(* A registered tool was called, and returned, on a server that is not     *)
(* running.                                                                *)
C15_Witness ==
    /\ last.op = "handle_tool_call"
    /\ last.outcome.kind = "return"
    /\ ~is_running

(* C16: the resource registry is a map with overwrite on register.  Right  *)
(* after register_resource(u, c) the listing holds u exactly once and the  *)
(* content stored for u is c; the content of a URI changes only in a       *)
(* registration of that URI; a listing holds every registered URI once;    *)
(* registering a resource leaves the tools alone and registering a tool    *)
(* leaves the resources alone.                                             *)
C16_AfterRegister ==
    /\ last.op = "register_resource" =>
           /\ Cardinality({i \in DOMAIN resources :
                              ListResources(resources)[i] = last.uri}) = 1
           /\ Get(resources, last.uri) = last.content
    /\ last.op = "list_resources" =>
           /\ Len(last.result) = Len(resources)
           /\ \A i, j \in DOMAIN last.result :
                  last.result[i] = last.result[j] => i = j
           /\ \A u \in Uris :
                  Has(resources, u) <=> \E i \in DOMAIN last.result : last.result[i] = u

C16_Step ==
    /\ \A u \in Uris :
           (Has(resources, u) /\ ~(last'.op = "register_resource" /\ last'.uri = u))
               => (Has(resources', u) /\ Get(resources', u) = Get(resources, u))
    /\ last'.op = "register_resource" => tools' = tools
    /\ last'.op = "register_tool" => resources' = resources

C16_ResourceMap == [](C16_AfterRegister) /\ [][C16_Step]_vars

(* A URI was registered again, with a second URI and a tool registered.    *)
C16_Witness ==
    /\ last.op = "register_resource"
    /\ last.overwrote
    /\ Len(resources) = 2
    /\ tools # <<>>

----------------------------------------------------------------------------
(* Properties of the default tools, checked under SpecTools.               *)

DatabaseTypeOf(arguments) ==
    IF "database_type" \in DOMAIN arguments THEN arguments.database_type ELSE "sql"

QueryCalled ==
    /\ last.op = "handle_tool_call"
    /\ last.tool_name = "query_database"
    /\ "query" \in DOMAIN last.arguments

(* C17: query_database answers for database type "sql" (also when the type *)
(* is omitted) and "neo4j" with exactly two rows, echoing the query and    *)
(* the database type; any other database type fails as an unsupported     *)
(* database type.                                                          *)
C17_QueryDatabase ==
    QueryCalled =>
        LET database_type == DatabaseTypeOf(last.arguments)
        IN  IF database_type \in {"sql", "neo4j"}
            THEN /\ last.outcome.kind = "return"
                 /\ last.outcome.value.count = 2
                 /\ last.outcome.value.database_type = database_type
                 /\ last.outcome.value.query = last.arguments.query
            ELSE /\ last.outcome.kind = "raise"
                 /\ last.outcome.exc.type = "ValueError"
                 /\ last.outcome.exc.msg[1] = "Unsupported database type"

C17_Witness ==
    /\ QueryCalled
    /\ DatabaseTypeOf(last.arguments) = "mongo"
    /\ last.outcome.kind = "raise"

AnalyzeCalled ==
    /\ last.op = "handle_tool_call"
    /\ last.tool_name = "analyze_political_content"

Occurrences(words, w) == Cardinality({i \in DOMAIN words : words[i] = w})

NoKeywordIn(w) ==
    \A i \in DOMAIN policy_areas : \A k \in DOMAIN policy_areas[i].keywords :
        ~Contains(Lower(Chars(w)), Chars(policy_areas[i].keywords[k]))

(* The word healthcare three times, and apart from it only words that      *)
(* hold no policy keyword.                                                 *)
HealthcareThrice(words) ==
    /\ Occurrences(words, "healthcare") = 3
    /\ \A i \in DOMAIN words : words[i] # "healthcare" => NoKeywordIn(words[i])

(* C18: for a text holding the word healthcare three times and no other    *)
(* policy keyword, the healthcare area has mentions 3 and relevance high,  *)
(* the other areas have mentions 0 and relevance low, and healthcare is a  *)
(* primary topic.                                                          *)
C18_HealthcareThrice ==
    (AnalyzeCalled /\ HealthcareThrice(last.arguments.text)) =>
        /\ last.outcome.kind = "return"
        /\ \A i \in DOMAIN last.outcome.value.analysis :
              LET e == last.outcome.value.analysis[i]
              IN  IF e.key = "healthcare"
                  THEN e.val.mentions = 3 /\ e.val.relevance = "high"
                  ELSE e.val.mentions = 0 /\ e.val.relevance = "low"
        /\ \E i \in DOMAIN last.outcome.value.primary_topics :
              last.outcome.value.primary_topics[i] = "healthcare"

(* C19: in every analysis an area's relevance is high exactly when its     *)
(* mentions exceed 2, medium when they are 1 or 2 and low when they are 0; *)
(* total_policy_mentions is the sum of the areas' mentions; primary_topics *)
(* lists exactly the areas of high relevance, in the order of the areas.   *)
C19_AnalysisConsistent ==
    AnalyzeCalled =>
        /\ last.outcome.kind = "return"
        /\ LET r == last.outcome.value
               high == SelectSeq(r.analysis, LAMBDA e : e.val.mentions > 2)
           IN  /\ [i \in DOMAIN r.analysis |-> r.analysis[i].key]
                     = [i \in DOMAIN policy_areas |-> policy_areas[i].area]
               /\ \A i \in DOMAIN r.analysis :
                     LET e == r.analysis[i].val
                     IN  /\ e.mentions \in Nat
                         /\ e.relevance = "high" <=> e.mentions > 2
                         /\ e.relevance = "medium" <=> e.mentions \in {1, 2}
                         /\ e.relevance = "low" <=> e.mentions = 0
               /\ r.total_policy_mentions
                     = SumSeq([i \in DOMAIN r.analysis |-> r.analysis[i].val.mentions])
               /\ r.primary_topics = [i \in DOMAIN high |-> high[i].key]

C19_Witness ==
    /\ AnalyzeCalled
    /\ last.outcome.kind = "return"
    /\ \E i, j, k \in DOMAIN last.outcome.value.analysis :
          /\ last.outcome.value.analysis[i].val.relevance = "high"
          /\ last.outcome.value.analysis[j].val.mentions = 1
          /\ last.outcome.value.analysis[k].val.relevance = "low"
    /\ last.outcome.value.primary_topics # <<>>

IndexCalled ==
    /\ last.op = "handle_tool_call"
    /\ last.tool_name = "index_documents"

(* C22: for every list of paths index_documents returns one result per     *)
(* path, in the order of the list; a path that exists is reported indexed  *)
(* with its content length and keyword count, a path that does not exist   *)
(* is reported not indexed with an error, and the call does not fail;      *)
(* total_indexed is the number of paths of the list that exist.            *)
C22_IndexDocuments ==
    IndexCalled =>
        LET paths == last.arguments.document_paths
        IN  /\ last.outcome.kind = "return"
            /\ Len(last.outcome.value.documents) = Len(paths)
            /\ \A i \in DOMAIN paths :
                  LET r == last.outcome.value.documents[i]
                  IN  /\ r.path = paths[i]
                      /\ r.indexed = Exists(paths[i])
                      /\ r.indexed =>
                            /\ r.content_length = Len(FileSystem(paths[i]).content)
                            /\ r.keywords = Keywords(FileSystem(paths[i]).content)
                      /\ ~r.indexed => r.error = "File not found"
            /\ last.outcome.value.total_indexed
                  = Cardinality({i \in DOMAIN paths : Exists(paths[i])})

----------------------------------------------------------------------------
(* Properties of the configuration tools, checked under SpecConfig.        *)

Unavailable(outcome) ==
    /\ outcome.kind = "raise"
    /\ outcome.exc.type = "RuntimeError"
    /\ outcome.exc.msg = <<"Configuration manager not available">>

C20_Step ==
    (/\ last'.op = "handle_tool_call"
     /\ last'.tool_name \in {"get_config", "update_config"}
     /\ Has(tools, last'.tool_name)
     /\ Binds(Get(tools, last'.tool_name).handler, last'.arguments)) =>
        LET a == last'.arguments
            out == last'.outcome
        IN  IF ~config_manager.present
            THEN /\ Unavailable(out)
                 /\ config_manager' = config_manager
            ELSE IF last'.tool_name = "get_config"
            THEN /\ out.kind = "return"
                 /\ out.value = LoadConfig(config_manager, a.config_type).config
                 /\ config_manager'.config_dir = config_manager.config_dir
            ELSE /\ out.kind = "return"
                 /\ out.value.status = "updated"
                 /\ out.value.config_type = a.config_type
                 /\ out.value.updates_applied = a.updates
                 /\ out.value.updated_config
                       = Dict(DeepUpdate(LoadConfig(config_manager, a.config_type).config.items,
                                         a.updates.items))
                 /\ out.value.updated_config
                       = LoadConfig(config_manager', a.config_type).config
                 /\ Has(config_manager'.config_dir, <<a.config_type, "json">>)
                 /\ Parse("json", Get(config_manager'.config_dir, <<a.config_type, "json">>))
                       = out.value.updated_config

(* C20: on a server built without a configuration manager every call of   *)
(* get_config and update_config fails as configuration-unavailable and the *)
(* configuration cache and directory stay as they were; on a server built  *)
(* with one, get_config returns load_config(config_type) and update_config *)
(* returns status "updated" with the manager's updated configuration,      *)
(* which is then the one the manager holds and has saved.                  *)
C20_ConfigurationTools ==
    /\ [](~config_manager.present => config_manager = NoManager)
    /\ [][C20_Step]_vars

C20_Witness ==
    /\ last.op = "handle_tool_call"
    /\ last.tool_name = "update_config"
    /\ last.outcome.kind = "return"
    /\ last.outcome.value.status = "updated"
    /\ config_manager.present
    /\ Has(config_manager.config_dir, <<"database", "yaml">>)
    /\ Has(config_manager.config_dir, <<"database", "json">>)
    /\ last.outcome.value.updated_config
          # Dict(DeepUpdate(GetDefaultConfig(last.arguments.config_type).items,
                            last.arguments.updates.items))

----------------------------------------------------------------------------
(* Properties of interleaved callers, checked under SpecAsync.             *)

Began(c) == tasks[c].pc = "idle" /\ tasks'[c].pc = "suspended"
Resumed(c) == tasks[c].pc = "suspended" /\ tasks'[c].pc = "idle"

C11_Step ==
    /\ \A n \in AsyncToolNames : Has(tools, n) => Has(tools', n)
    /\ last'.op = "register_tool" => Get(tools', last'.name).handler = last'.handler
    /\ (last'.op = "handle_tool_call" /\ tasks' = tasks) =>
           IF Has(tools, last'.tool_name)
           THEN last'.outcome.invoked = <<Get(tools, last'.tool_name).handler>>
           ELSE NotFound(last'.outcome, last'.tool_name)
    /\ \A c \in Callers :
           /\ Began(c) =>
                 /\ Has(tools, tasks'[c].tool_name)
                 /\ tasks'[c].handler = Get(tools, tasks'[c].tool_name).handler
           /\ Resumed(c) =>
                 /\ last'.op = "handle_tool_call"
                 /\ last'.outcome.invoked = <<tasks[c].handler>>

(* C11: a call looks its handler up in the tools map as it is when the     *)
(* call begins.  In every interleaving, a call that begins runs the        *)
(* handler of the name's latest registration, also while an earlier call   *)
(* of the name is suspended with the handler registered before; a name     *)
(* once registered stays, so a call that begins after it never fails with  *)
(* not-found; a suspended call goes on with the handler it began with.     *)
C11_ResolvesAtCallTime == [][C11_Step]_vars

C11_Witness ==
    \E c \in Callers :
        /\ tasks[c].pc = "suspended"
        /\ Has(tools, tasks[c].tool_name)
        /\ Get(tools, tasks[c].tool_name).handler # tasks[c].handler
        /\ last.op = "handle_tool_call"
        /\ last.tool_name = tasks[c].tool_name
        /\ last.outcome.invoked = <<Get(tools, last.tool_name).handler>>

C13_OthersCanRun ==
    \A c \in Callers : tasks[c].pc = "suspended" =>
        \A other \in Callers \ {c} : tasks[other].pc = "idle" =>
            /\ \A n \in AsyncToolNames : \A h \in AsyncHandlers :
                  ENABLED TaskRegisterTool(other, n, AsyncDescription, h)
            /\ ENABLED TaskListTools(other)
            /\ \A n \in AsyncCalledNames \ {tasks[c].tool_name} : \A a \in Arguments :
                  ENABLED TaskCall(other, n, a)

C13_Step ==
    /\ \A c \in Callers :
           (tasks[c].pc = "suspended" /\ tasks'[c] # tasks[c]) =>
               /\ tasks'[c] = Idle
               /\ last'.op = "handle_tool_call"
               /\ last'.tool_name = tasks[c].tool_name
               /\ \A other \in Callers \ {c} : tasks'[other] = tasks[other]
    /\ last'.op = "register_tool" =>
           /\ tasks' = tasks
           /\ tools' = RegisterToolMap(tools, last'.name, last'.description,
                                       last'.handler)
    /\ last'.op = "list_tools" =>
           /\ tasks' = tasks
           /\ last'.result = ListTools(tools)
    /\ (last'.op = "handle_tool_call" /\ tasks' = tasks) =>
           last'.outcome = HandleToolCallOutcome(tools, config_manager,
                                                 last'.tool_name, last'.arguments)

(* C13: while a call of an asynchronous handler is suspended, only its     *)
(* caller waits.  Every other caller can register a tool, list the tools   *)
(* and call any other tool; these operations complete with their usual     *)
(* results and leave the suspended call as it is, and nothing requires the *)
(* suspended call ever to go on.                                           *)
C13_OnlyCallerWaits == [](C13_OthersCanRun) /\ [][C13_Step]_vars

C13_Witness ==
    \E c \in Callers :
        /\ tasks[c].pc = "suspended"
        /\ \A other \in Callers \ {c} : tasks[other].pc = "idle"
        /\ last.op = "handle_tool_call"
        /\ last.tool_name # tasks[c].tool_name
        /\ last.outcome.kind = "return"
        /\ last.outcome.invoked = <<"search_tool">>

----------------------------------------------------------------------------
(* Properties of parallel registration, checked under SpecParallel.        *)

AllStored == \A c \in Callers : tasks[c].pc = "done"

ExactlyOnePerCaller(listing) ==
    /\ Len(listing) = NumCallers
    /\ \A c \in Callers :
          \E i \in DOMAIN listing :
              /\ listing[i] = [name |-> ParallelName(c),
                               description |-> tasks[c].description]
              /\ \A j \in DOMAIN listing : listing[j].name = ParallelName(c) => j = i

(* C12: when every one of the parallel callers has registered its own      *)
(* name, in whatever order the callers' steps were taken, list_tools        *)
(* returns exactly one entry per caller, as many entries as callers, each   *)
(* with the description its caller supplied.                                *)
C12_NoLostRegistration ==
    AllStored =>
        /\ ExactlyOnePerCaller(ListTools(tools))
        /\ last.op = "list_tools" => ExactlyOnePerCaller(last.result)

C12_Witness ==
    /\ AllStored
    /\ last.op = "list_tools"
    /\ Len(last.result) = NumCallers
    /\ last.result[1].name = ParallelName(NumCallers)
    /\ \E i, j \in DOMAIN last.result :
          last.result[i].description # last.result[j].description

----------------------------------------------------------------------------
(* Properties of construction, checked under SpecEither.                   *)

FiveTools ==
    <<"index_documents", "analyze_political_content", "query_database",
      "get_config", "update_config">>

Fresh == last.op = "__init__"

C21_FreshState ==
    Fresh =>
        /\ ~is_running
        /\ IF last.class = "PoliticalDocumentMCPServer"
           THEN /\ NamesOf(ListTools(tools)) = FiveTools
                /\ \A i \in DOMAIN tools : tools[i].key = FiveTools[i]
           ELSE /\ tools = <<>>
                /\ resources = <<>>

C21_Step ==
    (Fresh /\ last'.op = "list_tools") =>
        NamesOf(last'.result)
            = IF last.class = "PoliticalDocumentMCPServer" THEN FiveTools ELSE <<>>

(* C21: a freshly constructed PoliticalDocumentMCPServer is stopped and    *)
(* its list_tools() returns exactly the five default tools, in the order   *)
(* index_documents, analyze_political_content, query_database, get_config, *)
(* update_config; a freshly constructed MCPServer is stopped and has empty  *)
(* tools and resources.                                                    *)
C21_FreshServers == [](C21_FreshState) /\ [][C21_Step]_vars

C21_Witness ==
    /\ Fresh
    /\ last.class = "PoliticalDocumentMCPServer"
    /\ Len(ListTools(tools)) = 5
    /\ ~is_running

----------------------------------------------------------------------------
(* Properties of the configuration manager, checked under SpecStore.       *)

Keys(items) == {items[i].key : i \in DOMAIN items}

(* new is old deep-merged with partial, said key by key.                   *)
RECURSIVE IsMerge(_, _, _)
IsMerge(old, partial, new) ==
    /\ Keys(new) = Keys(old) \cup Keys(partial)
    /\ Len(new) = Cardinality(Keys(new))
    /\ \A k \in Keys(old) \ Keys(partial) : Get(new, k) = Get(old, k)
    /\ \A k \in Keys(partial) :
          IF k \in Keys(old) /\ Get(old, k).dict /\ Get(partial, k).dict
          THEN /\ Get(new, k).dict
               /\ IsMerge(Get(old, k).items, Get(partial, k).items, Get(new, k).items)
          ELSE Get(new, k) = Get(partial, k)

C23_Step ==
    last'.op = "update_config" =>
        LET before == LoadConfig(config_manager, last'.config_name).config
        IN  /\ last'.result.dict
            /\ IsMerge(before.items, last'.updates.items, last'.result.items)
            /\ LoadConfig(config_manager', last'.config_name).config = last'.result

C23_LoadAfterUpdate ==
    (last.op = "update_config" /\ last'.op = "load_config"
        /\ last'.config_name = last.config_name) =>
        last'.result = last.result

(* C23: update_config(name, partial) is a recursive deep merge of partial  *)
(* into the configuration load_config(name) gives: a key of partial whose  *)
(* stored and new values are both maps is merged recursively, any other    *)
(* key of partial is overwritten, every other key keeps its value; the     *)
(* merged map is returned, and load_config(name) afterwards returns it.    *)
C23_DeepMerge == [][C23_Step /\ C23_LoadAfterUpdate]_vars

C23_Witness ==
    /\ last.op = "update_config"
    /\ last.config_name = "database"
    /\ Has(last.updates.items, "sql_database")
    /\ Get(last.updates.items, "sql_database").dict
    /\ Has(last.result.items, "port")
    /\ Has(last.result.items, "vector_store")
    /\ Get(last.result.items, "sql_database").dict
    /\ Len(Get(last.result.items, "sql_database").items) > 1

C24_Step ==
    (last'.op = "save_config" /\ last'.outcome.kind = "return") =>
        LoadConfig(config_manager', last'.config_name).config = last'.config

C24_LoadAfterSave ==
    (last.op = "save_config" /\ last.outcome.kind = "return"
        /\ last'.op = "load_config" /\ last'.config_name = last.config_name) =>
        last'.result = last.config

(* C24: after a save_config(name, c) that succeeded, whatever the cache    *)
(* and the files held before, load_config(name) returns c.                 *)
C24_SaveLoadRoundTrip == [][C24_Step /\ C24_LoadAfterSave]_vars

C24_Witness ==
    /\ last.op = "load_config"
    /\ last.config_name = "database"
    /\ Has(config_manager.config_dir, <<"database", "json">>)
    /\ Has(config_manager.config_dir, <<"database", "yaml">>)
    /\ Get(config_manager.config_dir, <<"database", "yaml">>).doc = last.result
    /\ Get(config_manager.config_dir, <<"database", "json">>).doc # last.result
    /\ last.result \in SavedConfigs

----------------------------------------------------------------------------
(* The order of the credential check and the lookup, under SpecPolitical.  *)

PermissionDenied(outcome) ==
    /\ outcome.kind = "raise"
    /\ outcome.exc.type = "PermissionError"
    /\ outcome.exc.msg = <<"Invalid API key or insufficient permissions">>
    /\ outcome.invoked = <<>>

(* C27: in handle_secure_tool_call the credential is checked before the    *)
(* name is looked up.  With a credential that is missing or not allowed    *)
(* the call fails with the permission error, the same one whether or not   *)
(* the name is registered; with an allowed credential and a name that is   *)
(* not registered it fails with the not-found error.                       *)
C27_CheckBeforeLookup ==
    /\ last.op = "handle_secure_tool_call" =>
          IF ~Allowed(last.api_key)
          THEN PermissionDenied(last.outcome)
          ELSE ~Has(tools, last.tool_name) => NotFound(last.outcome, last.tool_name)
    /\ \A k \in ApiKeys : ~Allowed(k) =>
          \A n \in CalledNames : \A a \in ArgumentsFor(n) :
              PermissionDenied(HandleSecureToolCallOutcome(tools, config_manager, n, a, k))

C27_Witness ==
    /\ last.op = "handle_secure_tool_call"
    /\ ~Allowed(last.api_key)
    /\ ~Has(tools, last.tool_name)
    /\ PermissionDenied(last.outcome)

----------------------------------------------------------------------------
(* The address across start and stop, checked under Spec.                  *)

C28_Step ==
    /\ last'.op = "stop" => (host' = host /\ port' = port)
    /\ (host' # host \/ port' # port) =>
          /\ last'.op = "start"
          /\ host' = last'.host
          /\ port' = last'.port
    /\ last'.op = "start" => (host' = last'.host /\ port' = last'.port)

(* C28: a server starts out at host "localhost" and port 8080; host and    *)
(* port change only in start, which sets them to its arguments, and stop   *)
(* leaves them as they are, so after start(h, p) and any number of stops   *)
(* the server still reports h and p.                                       *)
C28_AddressOnlyInStart ==
    /\ (host = "localhost" /\ port = 8080)
    /\ [][C28_Step]_vars

C28_Witness ==
    /\ last.op = "stop"
    /\ ~last.was_running
    /\ host = "host2"
    /\ port = 9090

----------------------------------------------------------------------------
(* Properties of the web application, checked under SpecWeb.               *)

(* The method and path pairs that _setup_routes registers.                 *)
StandardRoutes ==
    { <<"GET", "/">>, <<"GET", "/api/config">>, <<"POST", "/api/config">>,
      <<"GET", "/api/documents">>, <<"POST", "/api/documents">>,
      <<"POST", "/api/search">>, <<"GET", "/api/analytics">>,
      <<"GET", "/api/health">>, <<"GET", "/config">> }

C25_Step ==
    last'.op = "handle_request" =>
        LET request == last'.request
            out == last'.outcome
            route_key == RouteKey(request.method, request.path)
        IN  /\ out.kind = "return"
            /\ request.path \notin ExtraPaths =>
                  (Has(routes, route_key)
                      <=> <<request.method, request.path>> \in StandardRoutes)
            /\ IF ~Has(routes, route_key)
               THEN /\ out.response.status_code = 404
                    /\ out.response.data = [error |-> "Not found"]
                    /\ out.invoked = <<>>
                    /\ config_manager' = config_manager
               ELSE LET result == WebBody(config_manager, Get(routes, route_key), request)
                    IN  /\ out.invoked = <<Get(routes, route_key)>>
                        /\ result.kind = "raise" =>
                              /\ out.response.status_code = 500
                              /\ out.response.data = [error |-> result.exc.message]
                        /\ (result.kind = "return" /\ result.is_response) =>
                              /\ out.response.status_code = result.status_code
                              /\ out.response.data = result.data
                        /\ (result.kind = "return" /\ ~result.is_response) =>
                              /\ out.response.status_code = 200
                              /\ out.response.data = result.data

(* C25: handle_request always returns a response.  When no handler is      *)
(* registered under the request's method and path it is status 404 with an *)
(* error body and no handler runs; when the handler raises it is status    *)
(* 500 with the error's message; otherwise it is the handler's response,   *)
(* a plain return value being wrapped with status 200.                     *)
C25_AlwaysResponds == [][C25_Step]_vars

C25_Witness ==
    /\ last.op = "handle_request"
    /\ last.request.path = "/t"
    /\ last.outcome.kind = "return"
    /\ last.outcome.invoked = <<"search_documents">>
    /\ last.outcome.response.status_code = 500

GetAllConfigs == MockRequest("GET", "/api/config", PyNone, PyNone)

NoConfigType(request) ==
    /\ request.json_data.dict
    /\ FalsyValue(GetOr(request.json_data, "type", PyNone))

C26_Step ==
    (last'.op = "handle_request" /\ last'.request.path = "/api/config"
        /\ last'.request.method \in {"GET", "POST"}) =>
        LET request == last'.request
            response == last'.outcome.response
        IN  IF ~config_manager.present
            THEN /\ response.status_code = 500
                 /\ response.data = [error |-> "Configuration manager not available"]
                 /\ config_manager' = config_manager
            ELSE (request.method = "POST" /\ NoConfigType(request)) =>
                 /\ response.status_code = 400
                 /\ "error" \in DOMAIN response.data
                 /\ config_manager' = config_manager
                 /\ HandleRequestOutcome(routes', config_manager', GetAllConfigs).response
                       = HandleRequestOutcome(routes, config_manager, GetAllConfigs).response

(* C26: a POST /api/config whose body names no configuration type is       *)
(* answered with status 400 and leaves every stored configuration as it    *)
(* was, so that GET /api/config answers the same before and after; on a    *)
(* web interface built without a configuration manager GET and POST        *)
(* /api/config are answered with status 500 and the error "Configuration   *)
(* manager not available".                                                 *)
C26_ConfigEndpoint == [][C26_Step]_vars

C26_Witness ==
    /\ last.op = "handle_request"
    /\ last.request.method = "POST"
    /\ last.request.path = "/api/config"
    /\ last.request.json_data # Dict(<<>>)
    /\ NoConfigType(last.request)
    /\ last.outcome.response.status_code = 400
    /\ config_manager.present
    /\ Has(config_manager.config_dir, <<"database", "json">>)


(***************************************************************************)
(* The ingestion job queue (ingestion_queue.py): job files in the          *)
(* directory ./ingestion_jobs.  `jobs.files` holds one item per file,      *)
(* keyed by the job name (the file is <job_name>.json); a name is a tuple  *)
(* of the strings it is put together from.                                 *)
(***************************************************************************)

(* The content of a job file as the queue reads it: valid is whether       *)
(* json.load gives a dict, status is its "status" entry ("<None>" when it  *)
(* has none), sources is whether it has a "sources" entry.                 *)
JobFile(valid, status, sources) ==
    [valid |-> valid, status |-> status, sources |-> sources]

(* job_config as create_ingestion_job dumps it.                            *)
NewJob == JobFile(TRUE, "pending", TRUE)

(* if not job_name: job_name = f"ingestion_job_{timestamp}"                *)
JobName(job_name, timestamp) ==
    IF job_name = <<>> THEN <<"ingestion_job_", timestamp>> ELSE job_name

(* jobs_dir.mkdir(exist_ok=True); open(job_file, 'w'); json.dump(...)      *)
CreateIngestionJobFiles(j, job_file) ==
    [exists |-> TRUE, files |-> SetItem(j.files, job_file, NewJob)]

(* A selection test that also takes jobs already being processed.          *)
SelectsUnfinished(file) ==
    file.valid /\ file.status \in {"pending", "processing"}

(* job_config.get("status") == "pending", for a file that json.load reads; *)
(* a file that raises while read is reported and skipped.                  *)
IsPending(file) == file.valid /\ file.status = "pending"

(* list_pending_jobs(): the files of the directory that are pending.  The  *)
(* order of the list is the order glob yields, which the directory         *)
(* decides; the model keeps the set.                                       *)
PendingJobs(j) ==
    IF ~j.exists THEN {}
    ELSE {j.files[i].key : i \in {k \in DOMAIN j.files : IsPending(j.files[k].val)}}

(* job_config["status"] = status; json.dump(job_config, f): the file gets  *)
(* the caller's copy of the configuration with the new status.             *)
WriteStatus(j, job_file, job_config, status) ==
    [j EXCEPT !.files = SetItem(@, job_file, [job_config EXCEPT !.status = status])]

(* The try block of process_next_job on the selected file, run without     *)
(* anything else touching the directory.  A job without "sources" raises   *)
(* KeyError after the first write and is marked failed; a                  *)
(* KeyboardInterrupt during the sleep is not an Exception and leaves the   *)
(* job as written.                                                         *)
ProcessJob(j, job_file, interrupted) ==
    LET job_config == Get(j.files, job_file)
        processing == WriteStatus(j, job_file, job_config, "processing")
    IN  IF ~job_config.sources
        THEN [writes |-> <<"processing", "failed">>,
              jobs |-> WriteStatus(processing, job_file, job_config, "failed")]
        ELSE IF interrupted
        THEN [writes |-> <<"processing">>, jobs |-> processing]
        ELSE [writes |-> <<"processing", "completed">>,
              jobs |-> WriteStatus(processing, job_file, job_config, "completed")]

JobNames == {<<"a">>, <<"h">>}
Timestamps == {"20240101_000000"}

(* Files put into the directory by hand: a pending job without sources     *)
(* and a file that is not JSON.                                            *)
HandMade ==
    <<[key |-> <<"h">>, val |-> JobFile(TRUE, "pending", FALSE)],
      [key |-> <<"x">>, val |-> JobFile(FALSE, "<None>", FALSE)]>>

Directories ==
    {NoJobs, [exists |-> TRUE, files |-> <<>>], [exists |-> TRUE, files |-> HandMade]}

InitQueue ==
    /\ tools = <<>>
    /\ resources = <<>>
    /\ is_running = FALSE
    /\ clients = <<>>
    /\ host = "localhost"
    /\ port = 8080
    /\ config_manager = NoManager
    /\ tasks = NoTasks
    /\ routes = <<>>
    /\ jobs \in Directories
    /\ last = [op |-> "__init__", class |-> "ingestion_queue"]

CreateIngestionJob ==
    \E job_name \in JobNames \cup {<<>>}, timestamp \in Timestamps :
        LET job_file == JobName(job_name, timestamp)
        IN  /\ jobs' = CreateIngestionJobFiles(jobs, job_file)
            /\ last' = [op |-> "create_ingestion_job", job_file |-> job_file,
                        writes |-> <<"pending">>, pending |-> {}]
            /\ UNCHANGED <<server, tasks, routes>>

ListPendingJobs ==
    /\ last' = [op |-> "list_pending_jobs", job_file |-> <<>>, writes |-> <<>>,
                pending |-> PendingJobs(jobs)]
    /\ UNCHANGED <<server, tasks, routes, jobs>>

ProcessNextJob ==
    LET pending_jobs == PendingJobs(jobs)
    IN  IF pending_jobs = {}
        THEN /\ last' = [op |-> "process_next_job", job_file |-> <<>>,
                         writes |-> <<>>, pending |-> pending_jobs]
             /\ UNCHANGED <<server, tasks, routes, jobs>>
        ELSE \E job_file \in pending_jobs, interrupted \in BOOLEAN :
                LET run == ProcessJob(jobs, job_file, interrupted)
                IN  /\ jobs' = run.jobs
                    /\ last' = [op |-> "process_next_job", job_file |-> job_file,
                                writes |-> run.writes, pending |-> pending_jobs]
                    /\ UNCHANGED <<server, tasks, routes>>

NextQueue ==
    \/ CreateIngestionJob
    \/ ListPendingJobs
    \/ ProcessNextJob

SpecQueue == InitQueue /\ [][NextQueue]_vars

(***************************************************************************)
(* process_next_job run by several invocations at once on one directory:   *)
(* each invocation is a process of its own, and between any two of its     *)
(* file operations the others may run.  `tasks[w]` is invocation w's       *)
(* position and its local variables job_file and job_config.               *)
(***************************************************************************)
NumWorkers == 2
Workers == 1 .. NumWorkers

NoConfig == JobFile(FALSE, "<None>", FALSE)

Invocation(pc, job_file, job_config) ==
    [pc |-> pc, job_file |-> job_file, job_config |-> job_config]

RaceDirectories ==
    {[exists |-> TRUE, files |-> <<[key |-> <<"a">>, val |-> NewJob]>>],
     [exists |-> TRUE, files |-> <<[key |-> <<"a">>, val |-> NewJob],
                                   [key |-> <<"b">>, val |-> NewJob]>>],
     [exists |-> TRUE, files |-> <<[key |-> <<"a">>, val |-> NewJob]>> \o HandMade]}

InitRace ==
    /\ tools = <<>>
    /\ resources = <<>>
    /\ is_running = FALSE
    /\ clients = <<>>
    /\ host = "localhost"
    /\ port = 8080
    /\ config_manager = NoManager
    /\ tasks = [w \in Workers |-> Invocation("start", <<>>, NoConfig)]
    /\ routes = <<>>
    /\ jobs \in RaceDirectories
    /\ last = [op |-> "__init__", class |-> "ingestion_queue"]

Stepped(w, step) == [op |-> "process_next_job", worker |-> w, step |-> step]

(* pending_jobs = list_pending_jobs(); job_file = pending_jobs[0]          *)
RaceSelect(w) ==
    /\ tasks[w].pc = "start"
    /\ LET pending_jobs == PendingJobs(jobs)
       IN  IF pending_jobs = {}
           THEN tasks' = [tasks EXCEPT ![w] = Invocation("done", <<>>, NoConfig)]
           ELSE \E job_file \in pending_jobs :
                   tasks' = [tasks EXCEPT ![w] = Invocation("selected", job_file, NoConfig)]
    /\ last' = Stepped(w, "select")
    /\ UNCHANGED <<server, routes, jobs>>

(* job_config = json.load(f)                                               *)
RaceLoad(w) ==
    /\ tasks[w].pc = "selected"
    /\ tasks' = [tasks EXCEPT ![w] =
                    Invocation("loaded", tasks[w].job_file, Get(jobs.files, tasks[w].job_file))]
    /\ last' = Stepped(w, "load")
    /\ UNCHANGED <<server, routes, jobs>>

(* job_config["status"] = "processing"; json.dump(job_config, f)           *)
RaceWriteProcessing(w) ==
    /\ tasks[w].pc = "loaded"
    /\ jobs' = WriteStatus(jobs, tasks[w].job_file, tasks[w].job_config, "processing")
    /\ tasks' = [tasks EXCEPT ![w].pc = "processing"]
    /\ last' = Stepped(w, "write_processing")
    /\ UNCHANGED <<server, routes>>

(* "Running ingestion...": job_config['sources'] is read; without it the   *)
(* KeyError handler writes "failed".                                       *)
RaceRun(w) ==
    /\ tasks[w].pc = "processing"
    /\ IF tasks[w].job_config.sources
       THEN /\ tasks' = [tasks EXCEPT ![w].pc = "running"]
            /\ UNCHANGED jobs
       ELSE /\ jobs' = WriteStatus(jobs, tasks[w].job_file, tasks[w].job_config, "failed")
            /\ tasks' = [tasks EXCEPT ![w].pc = "done"]
    /\ last' = Stepped(w, "run")
    /\ UNCHANGED <<server, routes>>

(* after time.sleep(2): job_config["status"] = "completed"; json.dump      *)
RaceWriteCompleted(w) ==
    /\ tasks[w].pc = "running"
    /\ jobs' = WriteStatus(jobs, tasks[w].job_file, tasks[w].job_config, "completed")
    /\ tasks' = [tasks EXCEPT ![w].pc = "done"]
    /\ last' = Stepped(w, "write_completed")
    /\ UNCHANGED <<server, routes>>

NextRace ==
    \E w \in Workers :
        \/ RaceSelect(w)
        \/ RaceLoad(w)
        \/ RaceWriteProcessing(w)
        \/ RaceRun(w)
        \/ RaceWriteCompleted(w)

SpecQueueRace == InitRace /\ [][NextRace]_vars

(***************************************************************************)
(* C29: a job's status only advances pending -> processing -> completed    *)
(* or failed.  Every change of a job file's status is either               *)
(* process_next_job taking that file while it is pending and writing       *)
(* "processing" and then at most one of "completed" and "failed", or       *)
(* create_ingestion_job writing "pending" under that job's name;           *)
(* process_next_job selects only a file whose status is "pending", and     *)
(* with no pending file it leaves the directory as it is.  Invocations     *)
(* run one after the other.                                                *)
(***************************************************************************)
Advances == {<<"processing">>, <<"processing", "completed">>, <<"processing", "failed">>}

C29_Step ==
    /\ \A i \in DOMAIN jobs.files :
          LET name == jobs.files[i].key
              old == jobs.files[i].val
          IN  /\ i \in DOMAIN jobs'.files
              /\ jobs'.files[i].key = name
              /\ jobs'.files[i].val # old =>
                    \/ /\ last'.op = "create_ingestion_job"
                       /\ last'.job_file = name
                       /\ jobs'.files[i].val.status = "pending"
                    \/ /\ last'.op = "process_next_job"
                       /\ last'.job_file = name
                       /\ old.valid /\ old.status = "pending"
                       /\ last'.writes \in Advances
                       /\ jobs'.files[i].val.status = last'.writes[Len(last'.writes)]
    /\ (last'.op = "process_next_job" /\ last'.job_file # <<>>) =>
          /\ Has(jobs.files, last'.job_file)
          /\ Get(jobs.files, last'.job_file).valid
          /\ Get(jobs.files, last'.job_file).status = "pending"
    /\ (last'.op = "process_next_job" /\ last'.job_file = <<>>) =>
          /\ jobs' = jobs
          /\ \A i \in DOMAIN jobs.files :
                ~(jobs.files[i].val.valid /\ jobs.files[i].val.status = "pending")

C29_StatusAdvances == [][C29_Step]_vars

(* A job was run to the end while another one, failed earlier, stayed      *)
(* failed and a third one, interrupted, stayed in processing.              *)
C29_Witness ==
    /\ last.op = "process_next_job"
    /\ last.writes = <<"processing", "completed">>
    /\ \E i \in DOMAIN jobs.files : jobs.files[i].val.status = "failed"
    /\ \E i \in DOMAIN jobs.files : jobs.files[i].val.status = "processing"
    /\ PendingJobs(jobs) = {}

(***************************************************************************)
(* C30: with process_next_job invocations running concurrently on one      *)
(* directory, no two of them take the same job: two invocations that       *)
(* have written "processing" did so for different job files.               *)
(***************************************************************************)
Took(w) == tasks[w].pc \in {"processing", "running", "done"} /\ tasks[w].job_file # <<>>

C30_TakenOnce ==
    \A w1, w2 \in Workers :
        (w1 # w2 /\ Took(w1) /\ Took(w2)) => tasks[w1].job_file # tasks[w2].job_file

============================================================================
